---- MODULE Spec2Model ----
(***************************************************************************)
(* Model of the scraping entry points of the repository:                   *)
(*   moteur_variante.extract_variants_with_images / save_images_to_file,   *)
(*   scraper_images.download_images, scrap_lien_collection.scrape_collection*)
(* One behaviour of Spec is one call of one entry point on one page.        *)
(*                                                                         *)
(* The image batch of download_images is modelled image by image in three  *)
(* further specifications over the same variables:                         *)
(*   SpecBatch   one direct call with a recording callback, then a repeat  *)
(*               of the call on the emptied folder;                        *)
(*   SpecJobs    calls running side by side in a thread pool;              *)
(*   SpecWorker  ScraperImagesWorker.run and its progress callbacks.       *)
(*                                                                         *)
(* Python strings are sequences of one-character strings; Python None and  *)
(* an absent DOM element are the one-token sequences NoneVal and Missing.  *)
(***************************************************************************)
EXTENDS Integers, Sequences, FiniteSets, TLC

\* ------------------------------------------------------------------ bounds
\* Largest number of radio inputs inside the variant options container.
MaxInputs == 2

\* ------------------------------------------------------------- text values
NoneVal == <<"None">>
Missing == <<"Missing">>

\* str.startswith(prefix)
StartsWith(s, p) == Len(s) >= Len(p) /\ SubSeq(s, 1, Len(p)) = p

\* str.lower() on the characters that occur in the modelled inputs
LowerChar(c) ==
    CASE c = "H" -> "h"
      [] c = "T" -> "t"
      [] c = "P" -> "p"
      [] c = "S" -> "s"
      [] c = "A" -> "a"
      [] OTHER -> c

Lower(s) == [k \in 1..Len(s) |-> LowerChar(s[k])]

\* str.strip(): leading and trailing blanks removed
RECURSIVE LStrip(_)
LStrip(s) == IF s # <<>> /\ Head(s) = " " THEN LStrip(Tail(s)) ELSE s

RECURSIVE RStrip(_)
RStrip(s) ==
    IF s # <<>> /\ s[Len(s)] = " " THEN RStrip(SubSeq(s, 1, Len(s) - 1)) ELSE s

Strip(s) == RStrip(LStrip(s))

HttpPrefix == <<"h", "t", "t", "p", ":", "/", "/">>
HttpsPrefix == <<"h", "t", "t", "p", "s", ":", "/", "/">>
HttpsColon == <<"h", "t", "t", "p", "s", ":">>
SlashSlash == <<"/", "/">>

\* url.lower().startswith(("http://", "https://"))
ValidUrl(u) ==
    StartsWith(Lower(u), HttpPrefix) \/ StartsWith(Lower(u), HttpsPrefix)

\* Python truthiness of a str-or-None value: `not name`
Falsy(s) == s = NoneVal \/ s = <<>>

\* ------------------------------------------------------------------ inputs
Entries == {"variants", "images", "collection"}

Urls ==
    { <<"h", "t", "t", "p", ":", "/", "/", "x">>,
      <<"H", "T", "T", "P", "S", ":", "/", "/", "x">>,
      <<"f", "t", "p", ":", "/", "/", "x">>,
      <<"/", "/", "x">> }

\* gallery image sources: protocol-relative, absolute, and bare relative
Srcs ==
    { <<"/", "/", "a">>,
      <<"h", "t", "t", "p", "s", ":", "/", "/", "a">>,
      <<"b">> }

\* value attribute of a radio input
Values == { NoneVal, <<>>, <<"R">>, <<"B">> }

\* text of the h1 element
Titles == { <<" ", "T", " ">>, <<"T">> }

InputElems == [value : Values, img : Srcs, checked : BOOLEAN]

InputLists == UNION { [1..n -> InputElems] : n \in 0..MaxInputs }

BlankDom ==
    [title |-> Missing, container |-> FALSE, inputs |-> <<>>, gallery |-> Missing]

\* the pages an entry point of the variant engine can be pointed at
Doms ==
    {BlankDom}
    \cup [title : Titles, container : {FALSE}, inputs : {<<>>}, gallery : {Missing}]
    \cup [title : Titles, container : {TRUE}, inputs : InputLists,
          gallery : Srcs \cup {NoneVal, Missing}]

NoExc == [type |-> "none", at |-> "none"]
NoOutcome == [kind |-> "none", exc |-> NoExc, title |-> NoneVal, variants |-> <<>>]
NoFile == <<"NoFile">>

\* ------------------------------------------------------------------- state
VARIABLES
    entry,          \* entry point called in this behaviour
    url,            \* its url argument
    page,           \* static part of the DOM served at url
    gallery,        \* src of ".product-gallery__media.is-selected img"
    checked,        \* indices of the radio inputs whose checked attribute is set
    pending,        \* image swap the page still owes to the last click
    pc,             \* position of the running entry point
    driver,         \* "none" | "open" | "closed"
    sessions,       \* number of drivers returned by setup_driver
    quits,          \* number of driver.quit() calls
    navigated,      \* driver.get was called
    exc,            \* exception in flight
    title,          \* local title
    idx,            \* position of the for loop over inputs
    name,           \* local name
    old_src,        \* local old_src
    was_checked,    \* line 68: inp.get_attribute("checked") is not None
    results,        \* local results: insertion-ordered dict as a sequence
    log,            \* history: one record per execution of line 79
    scripts,        \* history: inputs passed to driver.execute_script
    waits,          \* history: inputs whose change-wait was started
    outcome,        \* what the caller receives
    file,           \* content written by save_images_to_file
    RESERVED_PATHS, \* scraper_images._RESERVED_PATHS
    jobs,           \* the download_images invocations, one record per page job
    disk,           \* files of the image folders: records [path, data]
    worker,         \* ScraperImagesWorker.run: counters, lock, emitted pairs
    alt_cache,      \* _ALT_SENTENCES_CACHE and the threads calling _load_alt_sentences
    ui,             \* the AlphaEngine widget and its Worker thread
    wp              \* one evaluation of _build_wp_url and of the local file name

vars ==
    << entry, url, page, gallery, checked, pending, pc, driver, sessions, quits,
       navigated, exc, title, idx, name, old_src, was_checked, results, log,
       scripts, waits, outcome, file, RESERVED_PATHS, jobs, disk, worker,
       alt_cache, ui, wp >>

domVars == << page, gallery, checked, pending >>
toolVars == << alt_cache, ui, wp >>
batchVars == << jobs, disk, worker, toolVars >>
callVars == << entry, url >>
loopVars == << title, idx, name, old_src, was_checked, results, log, scripts, waits >>
driverVars == << driver, sessions, quits, navigated >>

\* no ScraperImagesWorker is running
NoWorker ==
    [active |-> FALSE, pc |-> "idle", max_jobs |-> 0, images_done |-> 0,
     total_images |-> 0, lock |-> 0, emits |-> <<>>]

\* _ALT_SENTENCES_CACHE.get(path) is None; no alt file; no thread is inside
\* _load_alt_sentences
NoDict == [kind |-> "None", value |-> {}]
NoAltFile == [kind |-> "missing", value |-> {}]
NoAlt == [cache |-> NoDict, opens |-> 0, file |-> NoAltFile, threads |-> <<>>]

\* no AlphaEngine widget exists
NoUi == [pc |-> "none"]

\* no URL is being built
NoWp == [pc |-> "none"]

ToolsIdle ==
    /\ alt_cache = NoAlt
    /\ ui = NoUi
    /\ wp = NoWp

Init ==
    /\ ToolsIdle
    /\ jobs = <<>>
    /\ disk = {}
    /\ worker = NoWorker
    /\ entry \in Entries
    /\ url \in Urls
    /\ \E d \in (IF entry = "variants" /\ ValidUrl(url) THEN Doms ELSE {BlankDom}) :
          /\ page = [title |-> d.title, container |-> d.container, inputs |-> d.inputs]
          /\ gallery = d.gallery
          /\ checked = {k \in DOMAIN d.inputs : d.inputs[k].checked}
    /\ pending = NoneVal
    /\ pc = "start"
    /\ driver = "none"
    /\ sessions = 0
    /\ quits = 0
    /\ navigated = FALSE
    /\ exc = NoExc
    /\ title = NoneVal
    /\ idx = 0
    /\ name = NoneVal
    /\ old_src = NoneVal
    /\ was_checked = FALSE
    /\ results = <<>>
    /\ log = <<>>
    /\ scripts = <<>>
    /\ waits = <<>>
    /\ outcome = NoOutcome
    /\ file = NoFile
    /\ RESERVED_PATHS \in (IF entry = "images" THEN SUBSET {"img.png"} ELSE {{}})

\* ----------------------------------------------------------------- helpers
\* an exception leaves the function: the caller receives it
Raised(e) == [kind |-> "raise", exc |-> e, title |-> NoneVal, variants |-> <<>>]

Returned(t, v) == [kind |-> "return", exc |-> NoExc, title |-> t, variants |-> v]

Finished == pc \in {"returned", "raised"}

\* `name in results`
InDict(d, k) == \E j \in 1..Len(d) : d[j].name = k

\* variant of DictSet: a new key is put in front instead of at the end
DictSet_Prepend(d, k, v) ==
    IF InDict(d, k)
    THEN [j \in 1..Len(d) |-> IF d[j].name = k THEN [name |-> k, src |-> v] ELSE d[j]]
    ELSE <<[name |-> k, src |-> v]>> \o d

\* `results[name] = src` on an insertion-ordered dict
DictSet(d, k, v) ==
    IF InDict(d, k)
    THEN [j \in 1..Len(d) |-> IF d[j].name = k THEN [name |-> k, src |-> v] ELSE d[j]]
    ELSE Append(d, [name |-> k, src |-> v])

\* variant of Normalize: the "//" prefix is left as it is
Normalize_Identity(src) == src

\* lines 77-78: if src.startswith("//"): src = "https:" + src
Normalize(src) == IF StartsWith(src, SlashSlash) THEN HttpsColon \o src ELSE src

\* driver_utils.setup_driver: a driver is handed to the caller, or the
\* provisioning raises and the caller holds nothing
SetupDriver(next) ==
    \/ /\ driver' = "open"
       /\ sessions' = sessions + 1
       /\ pc' = next
       /\ UNCHANGED << exc, outcome >>
    \/ /\ pc' = "raised"
       /\ exc' = [type |-> "WebDriverException", at |-> "setup"]
       /\ outcome' = Raised(exc')
       /\ UNCHANGED << driver, sessions >>


\* --------------------------------------------- extract_variants_with_images
\* lines 43-44: the scheme check, before any driver exists
EV_CheckUrl ==
    /\ entry = "variants"
    /\ pc = "start"
    /\ IF ValidUrl(url)
       THEN /\ pc' = "setup"
            /\ UNCHANGED << exc, outcome >>
       ELSE /\ pc' = "raised"
            /\ exc' = [type |-> "ValueError", at |-> "url"]
            /\ outcome' = Raised(exc')
    /\ UNCHANGED << batchVars, callVars, domVars, driverVars, loopVars, file, RESERVED_PATHS >>

\* line 46: driver = setup_driver(), outside the try block
EV_SetupDriver ==
    /\ entry = "variants"
    /\ pc = "setup"
    /\ SetupDriver("get")
    /\ UNCHANGED << batchVars, callVars, domVars, quits, navigated, loopVars, file, RESERVED_PATHS >>

\* lines 48-49: driver.get(url); the navigation itself may fail
EV_Get ==
    /\ entry = "variants"
    /\ pc = "get"
    /\ navigated' = TRUE
    /\ \/ /\ pc' = "wait_h1"
          /\ exc' = exc
       \/ /\ pc' = "finally"
          /\ exc' = [type |-> "WebDriverException", at |-> "get"]
    /\ UNCHANGED << batchVars, callVars, domVars, driver, sessions, quits, loopVars, outcome,
                    file, RESERVED_PATHS >>

\* lines 50-54: wait for the h1 (10 s), then read and trim its text
EV_WaitTitle ==
    /\ entry = "variants"
    /\ pc = "wait_h1"
    /\ IF page.title = Missing
       THEN /\ pc' = "finally"
            /\ exc' = [type |-> "TimeoutException", at |-> "load"]
            /\ title' = title
       ELSE /\ pc' = "container"
            /\ exc' = exc
            /\ title' = Strip(page.title)
    /\ UNCHANGED << batchVars, callVars, domVars, driverVars, idx, name, old_src, was_checked,
                    results, log, scripts, waits, outcome, file, RESERVED_PATHS >>

\* lines 56-59: find the options container, list its radio inputs
EV_FindInputs ==
    /\ entry = "variants"
    /\ pc = "container"
    /\ IF page.container
       THEN /\ pc' = "loop"
            /\ exc' = exc
            /\ idx' = 1
            /\ results' = <<>>
       ELSE /\ pc' = "finally"
            /\ exc' = [type |-> "NoSuchElementException", at |-> "container"]
            /\ UNCHANGED << idx, results >>
    /\ UNCHANGED << batchVars, callVars, domVars, driverVars, title, name, old_src, was_checked,
                    log, scripts, waits, outcome, file, RESERVED_PATHS >>

\* variant of EV_LoopNext: `if not name: continue`, seen names are visited again
EV_LoopNext_NoDedup ==
    /\ entry = "variants"
    /\ pc = "loop"
    /\ IF idx > Len(page.inputs)
       THEN /\ pc' = "finally"
            /\ UNCHANGED << idx, name >>
       ELSE /\ name' = page.inputs[idx].value
            /\ IF Falsy(name')
               THEN /\ idx' = idx + 1
                    /\ pc' = "loop"
               ELSE /\ idx' = idx
                    /\ pc' = "capture"
    /\ UNCHANGED << batchVars, callVars, domVars, driverVars, exc, title, old_src, was_checked,
                    results, log, scripts, waits, outcome, file, RESERVED_PATHS >>

\* variant of EV_LoopNext: `if name in results: continue`, empty names are visited
EV_LoopNext_NoEmptySkip ==
    /\ entry = "variants"
    /\ pc = "loop"
    /\ IF idx > Len(page.inputs)
       THEN /\ pc' = "finally"
            /\ UNCHANGED << idx, name >>
       ELSE /\ name' = page.inputs[idx].value
            /\ IF InDict(results, name')
               THEN /\ idx' = idx + 1
                    /\ pc' = "loop"
               ELSE /\ idx' = idx
                    /\ pc' = "capture"
    /\ UNCHANGED << batchVars, callVars, domVars, driverVars, exc, title, old_src, was_checked,
                    results, log, scripts, waits, outcome, file, RESERVED_PATHS >>

\* lines 60-63 and 82: next input of the for loop; skip empty and seen names
EV_LoopNext ==
    /\ entry = "variants"
    /\ pc = "loop"
    /\ IF idx > Len(page.inputs)
       THEN /\ pc' = "finally"
            /\ UNCHANGED << idx, name >>
       ELSE /\ name' = page.inputs[idx].value
            /\ IF Falsy(name') \/ InDict(results, name')
               THEN /\ idx' = idx + 1
                    /\ pc' = "loop"
               ELSE /\ idx' = idx
                    /\ pc' = "capture"
    /\ UNCHANGED << batchVars, callVars, domVars, driverVars, exc, title, old_src, was_checked,
                    results, log, scripts, waits, outcome, file, RESERVED_PATHS >>

\* variant of EV_Capture: the click is issued whatever `checked` says
EV_Capture_AlwaysClick ==
    /\ entry = "variants"
    /\ pc = "capture"
    /\ IF gallery = Missing
       THEN /\ pc' = "finally"
            /\ exc' = [type |-> "NoSuchElementException", at |-> "gallery"]
            /\ UNCHANGED << old_src, was_checked >>
       ELSE /\ old_src' = gallery
            /\ was_checked' = (idx \in checked)
            /\ exc' = exc
            /\ pc' = "click"
    /\ UNCHANGED << batchVars, callVars, domVars, driverVars, title, idx, name, results, log,
                    scripts, waits, outcome, file, RESERVED_PATHS >>

\* lines 65-68: find the gallery image, capture old_src, test `checked`
EV_Capture ==
    /\ entry = "variants"
    /\ pc = "capture"
    /\ IF gallery = Missing
       THEN /\ pc' = "finally"
            /\ exc' = [type |-> "NoSuchElementException", at |-> "gallery"]
            /\ UNCHANGED << old_src, was_checked >>
       ELSE /\ old_src' = gallery
            /\ was_checked' = (idx \in checked)
            /\ exc' = exc
            /\ pc' = IF was_checked' THEN "read" ELSE "click"
    /\ UNCHANGED << batchVars, callVars, domVars, driverVars, title, idx, name, results, log,
                    scripts, waits, outcome, file, RESERVED_PATHS >>

\* lines 69-70: execute_script("arguments[0].click();", inp) and the settle
\* sleep.  The page marks the input checked, may uncheck others (radio
\* groups), and owes the gallery the image of the clicked variant.
EV_Click ==
    /\ entry = "variants"
    /\ pc = "click"
    /\ scripts' = Append(scripts, idx)
    /\ \E keep \in SUBSET checked : checked' = keep \cup {idx}
    /\ pending' = page.inputs[idx].img
    /\ waits' = Append(waits, idx)
    /\ pc' = "wait"
    /\ UNCHANGED << batchVars, callVars, page, gallery, driverVars, exc, title, idx, name,
                    old_src, was_checked, results, log, outcome, file, RESERVED_PATHS >>

\* the page carries out the swap it owes: the gallery src becomes the image
\* of the clicked variant
PageSwap ==
    /\ pending # NoneVal
    /\ gallery # Missing
    /\ gallery' = pending
    /\ pending' = NoneVal
    /\ UNCHANGED << batchVars, callVars, page, checked, pc, driverVars, exc, loopVars, outcome,
                    file, RESERVED_PATHS >>

\* variant of EV_WaitChanged: the wait is for the presence of the image
EV_WaitChanged_Presence ==
    /\ entry = "variants"
    /\ pc = "wait"
    /\ gallery # Missing
    /\ pc' = "read"
    /\ UNCHANGED << batchVars, callVars, domVars, driverVars, exc, loopVars, outcome, file,
                    RESERVED_PATHS >>

\* lines 71-74: a poll of WebDriverWait(driver, 5) sees src != old_src
EV_WaitChanged ==
    /\ entry = "variants"
    /\ pc = "wait"
    /\ gallery # old_src
    /\ pc' = "read"
    /\ UNCHANGED << batchVars, callVars, domVars, driverVars, exc, loopVars, outcome, file,
                    RESERVED_PATHS >>

\* lines 71-73: every poll saw src == old_src until the 5 s ran out
EV_WaitTimeout ==
    /\ entry = "variants"
    /\ pc = "wait"
    /\ gallery = old_src
    /\ pc' = "finally"
    /\ exc' = [type |-> "TimeoutException", at |-> "select"]
    /\ UNCHANGED << batchVars, callVars, domVars, driverVars, loopVars, outcome, file,
                    RESERVED_PATHS >>

\* lines 76-80: read src, normalise "//", store under name
EV_Record ==
    /\ entry = "variants"
    /\ pc = "read"
    /\ IF gallery = NoneVal
       THEN /\ pc' = "finally"
            /\ exc' = [type |-> "AttributeError", at |-> "src"]
            /\ UNCHANGED << idx, results, log >>
       ELSE /\ results' = DictSet(results, name, Normalize(gallery))
            /\ log' = Append(log, [idx |-> idx, name |-> name, old_src |-> old_src,
                                   raw |-> gallery, checked |-> was_checked])
            /\ idx' = idx + 1
            /\ pc' = "loop"
            /\ exc' = exc
    /\ UNCHANGED << batchVars, callVars, domVars, driverVars, title, name, old_src, was_checked,
                    scripts, waits, outcome, file, RESERVED_PATHS >>

\* variant of EV_Finally: `return title, results` inside the finally block,
\* which discards the exception in flight
EV_Finally_ReturnInside ==
    /\ entry = "variants"
    /\ pc = "finally"
    /\ driver' = "closed"
    /\ quits' = quits + 1
    /\ pc' = "returned"
    /\ outcome' = Returned(title, results)
    /\ UNCHANGED << batchVars, callVars, domVars, sessions, navigated, exc, loopVars, file,
                    RESERVED_PATHS >>

\* variant of EV_Finally: no finally block, driver.quit() only before the return
EV_Finally_QuitOnSuccess ==
    /\ entry = "variants"
    /\ pc = "finally"
    /\ IF exc = NoExc
       THEN /\ driver' = "closed"
            /\ quits' = quits + 1
            /\ pc' = "returned"
            /\ outcome' = Returned(title, results)
       ELSE /\ pc' = "raised"
            /\ outcome' = Raised(exc)
            /\ UNCHANGED << driver, quits >>
    /\ UNCHANGED << batchVars, callVars, domVars, sessions, navigated, exc, loopVars, file,
                    RESERVED_PATHS >>

\* lines 83-84: finally: driver.quit(); then the return of line 82 or the
\* exception in flight reaches the caller
EV_Finally ==
    /\ entry = "variants"
    /\ pc = "finally"
    /\ driver' = "closed"
    /\ quits' = quits + 1
    /\ IF exc = NoExc
       THEN /\ pc' = "returned"
            /\ outcome' = Returned(title, results)
       ELSE /\ pc' = "raised"
            /\ outcome' = Raised(exc)
    /\ UNCHANGED << batchVars, callVars, domVars, sessions, navigated, exc, loopVars, file,
                    RESERVED_PATHS >>

\* ------------------------------------------------------ save_images_to_file
NewLine == <<"\n">>
Separator == <<" ", ":", " ">>

RECURSIVE VariantLines(_)
VariantLines(d) ==
    IF d = <<>> THEN <<>>
    ELSE Head(d).name \o Separator \o Head(d).src \o NewLine \o VariantLines(Tail(d))

\* lines 95-102, called by the caller with the returned title and mapping
SaveImagesToFile ==
    /\ entry = "variants"
    /\ pc = "returned"
    /\ file = NoFile
    /\ file' = outcome.title \o NewLine \o VariantLines(outcome.variants)
    /\ UNCHANGED << batchVars, callVars, domVars, pc, driverVars, exc, loopVars, outcome,
                    RESERVED_PATHS >>


\* ------------------------------------------------------------ download_images
\* lines 258-270: clear the reserved paths, resolve the user agent, then the
\* scheme check, before any driver exists
DI_Start ==
    /\ entry = "images"
    /\ pc = "start"
    /\ RESERVED_PATHS' = {}
    /\ IF ValidUrl(url)
       THEN /\ pc' = "setup"
            /\ UNCHANGED << exc, outcome >>
       ELSE /\ pc' = "raised"
            /\ exc' = [type |-> "ValueError", at |-> "url"]
            /\ outcome' = Raised(exc')
    /\ UNCHANGED << batchVars, callVars, domVars, driverVars, loopVars, file >>

\* lines 272-285: driver = setup_driver(), counters, alt sentences (the
\* loader swallows its own errors)
DI_SetupDriver ==
    /\ entry = "images"
    /\ pc = "setup"
    /\ SetupDriver("get")
    /\ UNCHANGED << batchVars, callVars, domVars, quits, navigated, loopVars, file, RESERVED_PATHS >>

\* lines 287-292: driver.get(url) and the 10 s wait for the selector
DI_Load ==
    /\ entry = "images"
    /\ pc = "get"
    /\ navigated' = TRUE
    /\ \/ /\ pc' = "batch"
          /\ exc' = exc
       \/ /\ pc' = "finally"
          /\ exc' \in { [type |-> "WebDriverException", at |-> "get"],
                        [type |-> "TimeoutException", at |-> "load"] }
    /\ UNCHANGED << batchVars, callVars, domVars, driver, sessions, quits, loopVars, outcome,
                    file, RESERVED_PATHS >>

\* lines 294-346: folder, enumeration and the download batch.  Per-image
\* errors are caught inside; only an error of the folder creation or of a
\* progress callback leaves the block.
DI_Batch ==
    /\ entry = "images"
    /\ pc = "batch"
    /\ pc' = "finally"
    /\ \/ exc' = exc
       \/ exc' \in { [type |-> "OSError", at |-> "folder"],
                     [type |-> "Exception", at |-> "callback"] }
    /\ UNCHANGED << batchVars, callVars, domVars, driverVars, loopVars, outcome, file,
                    RESERVED_PATHS >>

\* lines 347-357: finally: driver.quit(); then the summary is returned or
\* the exception in flight reaches the caller
DI_Finally ==
    /\ entry = "images"
    /\ pc = "finally"
    /\ driver' = "closed"
    /\ quits' = quits + 1
    /\ IF exc = NoExc
       THEN /\ pc' = "returned"
            /\ outcome' = Returned(NoneVal, <<>>)
       ELSE /\ pc' = "raised"
            /\ outcome' = Raised(exc)
    /\ UNCHANGED << batchVars, callVars, domVars, sessions, navigated, exc, loopVars, file,
                    RESERVED_PATHS >>

\* ---------------------------------------------------------- scrape_collection
\* lines 55-56: driver = setup_driver() is the first statement
SC_SetupDriver ==
    /\ entry = "collection"
    /\ pc = "start"
    /\ SetupDriver("check")
    /\ UNCHANGED << batchVars, callVars, domVars, quits, navigated, loopVars, file, RESERVED_PATHS >>

\* lines 58-63: inside the try block, the scheme check
SC_CheckUrl ==
    /\ entry = "collection"
    /\ pc = "check"
    /\ IF ValidUrl(url)
       THEN /\ pc' = "get"
            /\ exc' = exc
       ELSE /\ pc' = "finally"
            /\ exc' = [type |-> "ValueError", at |-> "url"]
    /\ UNCHANGED << batchVars, callVars, domVars, driverVars, loopVars, outcome, file,
                    RESERVED_PATHS >>

\* lines 64-65: driver.get(url)
SC_Get ==
    /\ entry = "collection"
    /\ pc = "get"
    /\ navigated' = TRUE
    /\ \/ /\ pc' = "paginate"
          /\ exc' = exc
       \/ /\ pc' = "finally"
          /\ exc' = [type |-> "WebDriverException", at |-> "get"]
    /\ UNCHANGED << batchVars, callVars, domVars, driver, sessions, quits, loopVars, outcome,
                    file, RESERVED_PATHS >>

\* lines 67-97: the pagination loop; the 10 s wait for the product links is
\* outside the inner try and may time out
SC_Paginate ==
    /\ entry = "collection"
    /\ pc = "paginate"
    /\ pc' = "finally"
    /\ \/ exc' = exc
       \/ exc' = [type |-> "TimeoutException", at |-> "load"]
    /\ UNCHANGED << batchVars, callVars, domVars, driverVars, loopVars, outcome, file,
                    RESERVED_PATHS >>

\* lines 98-115: finally: driver.quit(); then the output file is written or
\* the exception in flight reaches the caller
SC_Finally ==
    /\ entry = "collection"
    /\ pc = "finally"
    /\ driver' = "closed"
    /\ quits' = quits + 1
    /\ IF exc = NoExc
       THEN /\ pc' = "returned"
            /\ outcome' = Returned(NoneVal, <<>>)
       ELSE /\ pc' = "raised"
            /\ outcome' = Raised(exc)
    /\ UNCHANGED << batchVars, callVars, domVars, sessions, navigated, exc, loopVars, file,
                    RESERVED_PATHS >>

\* ------------------------------------------------------------ specification
Next ==
    \/ EV_CheckUrl
    \/ EV_SetupDriver
    \/ EV_Get
    \/ EV_WaitTitle
    \/ EV_FindInputs
    \/ EV_LoopNext
    \/ EV_Capture
    \/ EV_Click
    \/ PageSwap
    \/ EV_WaitChanged
    \/ EV_WaitTimeout
    \/ EV_Record
    \/ EV_Finally
    \/ SaveImagesToFile
    \/ DI_Start
    \/ DI_SetupDriver
    \/ DI_Load
    \/ DI_Batch
    \/ DI_Finally
    \/ SC_SetupDriver
    \/ SC_CheckUrl
    \/ SC_Get
    \/ SC_Paginate
    \/ SC_Finally

Spec == Init /\ [][Next]_vars


\* ================================================================== claims
VariantsReturned == entry = "variants" /\ outcome.kind = "return"

\* number of times x occurs in the sequence s
Count(s, x) == Cardinality({j \in 1..Len(s) : s[j] = x})

\* `results[name]`
DictGet(d, k) == d[CHOOSE j \in 1..Len(d) : d[j].name = k].src

\* ---------------------------------------------------------------------- C1
\* C1: for every variant control that was not already checked, the src
\* recorded for it (before the "//" normalisation) differs from the old_src
\* captured just before its click, and the read that records it happens only
\* after the change-wait has seen the gallery src differ from old_src.
C1_RecordedDiffersFromOldSrc ==
    /\ \A j \in 1..Len(log) : ~log[j].checked => log[j].raw # log[j].old_src
    /\ (pc = "read" /\ ~was_checked) => gallery # old_src

C1_Witness ==
    /\ VariantsReturned
    /\ \E j \in 1..Len(log) : ~log[j].checked /\ Count(waits, log[j].idx) = 1

\* ---------------------------------------------------------------------- C2
\* C2: when a selection wait times out, the call raises and the caller gets
\* no mapping, whatever had been collected for earlier variants.
C2_AllOrNothing ==
    (entry = "variants" /\ exc.at = "select") =>
        /\ outcome.kind # "return"
        /\ Finished => (outcome.kind = "raise" /\ outcome.variants = <<>>)

C2_Witness ==
    /\ entry = "variants"
    /\ pc = "raised"
    /\ exc = [type |-> "TimeoutException", at |-> "select"]
    /\ Len(results) >= 1

\* ---------------------------------------------------------------------- C3
\* index of the first control, in DOM order, that carries the value v
FirstIndex(v) ==
    CHOOSE k \in DOMAIN page.inputs :
        /\ page.inputs[k].value = v
        /\ \A m \in 1..(k - 1) : page.inputs[m].value # v

\* C3: a value carried by several controls has exactly one entry in the
\* mapping, recorded at its first control in DOM order with the image seen
\* there, and no later control with that value writes it again.
C3_FirstOccurrenceWins ==
    /\ \A j, k \in 1..Len(log) : j # k => log[j].name # log[k].name
    /\ \A j \in 1..Len(log) : log[j].idx = FirstIndex(log[j].name)
    /\ VariantsReturned =>
          \A k \in DOMAIN page.inputs :
              ~Falsy(page.inputs[k].value) =>
                  /\ Count([j \in 1..Len(outcome.variants) |-> outcome.variants[j].name],
                           page.inputs[k].value) = 1
                  /\ \E j \in 1..Len(log) :
                        /\ log[j].idx = FirstIndex(page.inputs[k].value)
                        /\ DictGet(outcome.variants, page.inputs[k].value)
                              = (IF StartsWith(log[j].raw, SlashSlash)
                                 THEN HttpsColon \o log[j].raw ELSE log[j].raw)

C3_Witness ==
    /\ VariantsReturned
    /\ Len(outcome.variants) = 1
    /\ \E j, k \in DOMAIN page.inputs :
          /\ j < k
          /\ page.inputs[j].value = page.inputs[k].value
          /\ ~Falsy(page.inputs[j].value)
          /\ page.inputs[j].img # page.inputs[k].img

\* ---------------------------------------------------------------------- C4
\* the distinct non-empty values carried by the variant controls
DistinctValues == {page.inputs[k].value : k \in DOMAIN page.inputs} \ {NoneVal, <<>>}

\* C4: on a loaded page whose gallery image is present with a src, with N
\* distinct non-empty control values and no selection wait timing out, the
\* call returns, and the mapping it returns has exactly N entries, one per
\* distinct value.
C4_ExactlyNEntries ==
    /\ VariantsReturned =>
          /\ Len(outcome.variants) = Cardinality(DistinctValues)
          /\ {outcome.variants[j].name : j \in 1..Len(outcome.variants)} = DistinctValues
    /\ (/\ entry = "variants"
        /\ Finished
        /\ idx >= 1
        /\ gallery \notin {Missing, NoneVal}
        /\ exc.at # "select") => outcome.kind = "return"

C4_Witness ==
    /\ VariantsReturned
    /\ Cardinality(DistinctValues) = 2
    /\ Len(outcome.variants) = 2
    /\ Len(waits) >= 1

\* ---------------------------------------------------------------------- C5
HasScheme(s) == StartsWith(s, HttpPrefix) \/ StartsWith(s, HttpsPrefix)

\* C5 as stated: every image URL of the returned mapping is scheme-qualified
\* and none begins with "//".
C5_Original ==
    VariantsReturned =>
        \A j \in 1..Len(outcome.variants) :
            /\ ~StartsWith(outcome.variants[j].src, SlashSlash)
            /\ HasScheme(outcome.variants[j].src)

\* C5 (amended): no image URL of the returned mapping begins with "//": a
\* protocol-relative src is returned with "https:" in front, and every other
\* src is returned exactly as the gallery gave it, with or without a scheme.
C5_NoProtocolRelative ==
    VariantsReturned =>
        \A j \in 1..Len(outcome.variants) :
            /\ ~StartsWith(outcome.variants[j].src, SlashSlash)
            /\ \E k \in 1..Len(log) :
                  /\ log[k].name = outcome.variants[j].name
                  /\ outcome.variants[j].src
                        = (IF StartsWith(log[k].raw, SlashSlash)
                           THEN HttpsColon \o log[k].raw ELSE log[k].raw)

C5_Witness ==
    /\ VariantsReturned
    /\ \E k \in 1..Len(log) : StartsWith(log[k].raw, SlashSlash)
    /\ \E k \in 1..Len(log) : ~HasScheme(log[k].raw) /\ ~StartsWith(log[k].raw, SlashSlash)

\* ---------------------------------------------------------------------- C6
\* the non-empty values of the controls in DOM order, each at its first control
RECURSIVE FirstNames(_, _)
FirstNames(inps, seen) ==
    IF inps = <<>> THEN <<>>
    ELSE IF Falsy(Head(inps).value) \/ Head(inps).value \in seen
         THEN FirstNames(Tail(inps), seen)
         ELSE <<Head(inps).value>>
                 \o FirstNames(Tail(inps), seen \cup {Head(inps).value})

\* the text s cut at its line ends
RECURSIVE SplitLines(_, _)
SplitLines(s, cur) ==
    IF s = <<>> THEN (IF cur = <<>> THEN <<>> ELSE <<cur>>)
    ELSE IF Head(s) = "\n" THEN <<cur>> \o SplitLines(Tail(s), <<>>)
         ELSE SplitLines(Tail(s), Append(cur, Head(s)))

\* C6: the returned mapping lists the names in the DOM order of the first
\* control carrying each name, and save_images_to_file writes the title
\* line followed by one "name : url" line per entry in that same order.
C6_DomOrderKept ==
    /\ VariantsReturned =>
          [j \in 1..Len(outcome.variants) |-> outcome.variants[j].name]
              = FirstNames(page.inputs, {})
    /\ file # NoFile =>
          SplitLines(file, <<>>)
              = <<outcome.title>>
                  \o [j \in 1..Len(outcome.variants) |->
                        outcome.variants[j].name \o <<" ", ":", " ">>
                            \o outcome.variants[j].src]

C6_Witness ==
    /\ file # NoFile
    /\ Len(outcome.variants) = 2
    /\ Len(SplitLines(file, <<>>)) = 3

C8_FailFast ==
    ~ValidUrl(url) =>
        /\ sessions = 0
        /\ driver = "none"
        /\ ~navigated
        /\ Finished => (outcome.kind = "raise" /\ outcome.exc.type = "ValueError")

\* ---------------------------------------------------------------------- C9
\* C9 as stated: on a loaded page without variant controls the call returns
\* the trimmed title and an empty mapping, whether the options container is
\* empty or absent.
C9_NoControlsEmptyMapping ==
    (entry = "variants" /\ Finished /\ title # NoneVal /\ page.inputs = <<>>) =>
        outcome = Returned(Strip(page.title), <<>>)

\* --------------------------------------------------------------------- C10
\* C10 as stated: a control found checked gets no click script and no
\* change-wait and its recorded image equals old_src; a visited unchecked
\* control gets exactly one click.
C10_Original ==
    \A j \in 1..Len(log) :
        IF log[j].checked
        THEN /\ Count(scripts, log[j].idx) = 0
             /\ Count(waits, log[j].idx) = 0
             /\ DictGet(results, log[j].name) = log[j].old_src
        ELSE Count(scripts, log[j].idx) = 1

\* C10 (amended): a control found checked gets no click script and no
\* change-wait and its recorded image is old_src with "https:" put in front
\* when old_src begins with "//"; a visited unchecked control gets exactly
\* one click.
C10_CheckedReusesOldSrc ==
    \A j \in 1..Len(log) :
        IF log[j].checked
        THEN /\ Count(scripts, log[j].idx) = 0
             /\ Count(waits, log[j].idx) = 0
             /\ DictGet(results, log[j].name)
                   = (IF StartsWith(log[j].old_src, SlashSlash)
                      THEN HttpsColon \o log[j].old_src ELSE log[j].old_src)
        ELSE Count(scripts, log[j].idx) = 1

C10_Witness ==
    /\ VariantsReturned
    /\ \E j, k \in 1..Len(log) : log[j].checked /\ ~log[k].checked
    /\ \E j \in 1..Len(log) : log[j].checked /\ StartsWith(log[j].old_src, SlashSlash)


\* ====================================================== download_images batch
\* ------------------------------------------------------------------ bounds
\* Largest number of <img> elements matched by the selector on one page.
MaxImgs == 2

\* Largest number of download_images calls running side by side.
MaxJobs == 2

\* Largest number of URLs handed to one ScraperImagesWorker.
MaxUrls == 2

\* ------------------------------------------------------------ text helpers
Digits == {"0", "1", "2", "3", "4", "5", "6", "7", "8", "9"}

LowerLetters == {"a", "b", "c", "d", "e", "f", "g", "h", "i", "j", "k", "l", "m", "n", "o", "p", "q", "r", "s", "t", "u", "v", "w", "x", "y", "z"}

UpperLetters == {"A", "B", "C", "D", "E", "F", "G", "H", "I", "J", "K", "L", "M", "N", "O", "P", "Q", "R", "S", "T", "U", "V", "W", "X", "Y", "Z"}

\* the regular expression class \w
WordChars == LowerLetters \cup UpperLetters \cup Digits \cup {"_"}

\* `c in s`
Contains(s, c) == \E k \in 1..Len(s) : s[k] = c

\* s.find(c) + 1
FirstPos(s, c) ==
    IF Contains(s, c) THEN CHOOSE k \in 1..Len(s) : s[k] = c /\ \A m \in 1..(k - 1) : s[m] # c
    ELSE 0

\* s.rfind(c) + 1
LastPos(s, c) ==
    IF Contains(s, c)
    THEN CHOOSE k \in 1..Len(s) : s[k] = c /\ \A m \in (k + 1)..Len(s) : s[m] # c
    ELSE 0

\* s.split(c)[0]
Before(s, c) == IF Contains(s, c) THEN SubSeq(s, 1, FirstPos(s, c) - 1) ELSE s

\* s.split(c, 1)[1], defined when c occurs in s
AfterFirst(s, c) == SubSeq(s, FirstPos(s, c) + 1, Len(s))

\* s.split(c)[-1]
AfterLast(s, c) == SubSeq(s, LastPos(s, c) + 1, Len(s))

\* os.path.basename for "/"-separated names
Basename(s) == AfterLast(s, "/")

\* str(n) for a natural number
RECURSIVE NumStr(_)
NumStr(n) ==
    LET d == <<"0", "1", "2", "3", "4", "5", "6", "7", "8", "9">>
    IN  IF n < 10 THEN <<d[n + 1]>> ELSE NumStr(n \div 10) \o <<d[(n % 10) + 1]>>

\* os.path.splitext on a bare file name: <<base, ext>>
SplitExt(fname) ==
    LET d == LastPos(fname, ".")
    IN  IF d > 0 /\ \E k \in 1..(d - 1) : fname[k] # "."
        THEN << SubSeq(fname, 1, d - 1), SubSeq(fname, d, Len(fname)) >>
        ELSE << fname, <<>> >>

\* pathlib.PurePath.suffix
Suffix(fname) ==
    LET d == LastPos(fname, ".")
    IN  IF 1 < d /\ d < Len(fname) THEN SubSeq(fname, d, Len(fname)) ELSE <<>>

\* line 209: re.sub(r"-\d+(?=\.\w+$)", "", raw_filename)
StripSize(fname) ==
    LET d == LastPos(fname, ".")
        h == LastPos(SubSeq(fname, 1, d - 1), "-")
    IN  IF /\ d > 0
           /\ d < Len(fname)
           /\ \A k \in (d + 1)..Len(fname) : fname[k] \in WordChars
           /\ h > 0
           /\ h + 1 < d
           /\ \A k \in (h + 1)..(d - 1) : fname[k] \in Digits
        THEN SubSeq(fname, 1, h - 1) \o SubSeq(fname, d, Len(fname))
        ELSE fname

\* line 53: re.sub(r"[^\w\-]", "_", product_name)
SafeName(s) == [k \in 1..Len(s) |-> IF s[k] \in WordChars \cup {"-"} THEN s[k] ELSE "_"]

\* line 156: path.parent.name.replace("_", " ")
ProductKey(dir) == [k \in 1..Len(dir) |-> IF dir[k] = "_" THEN " " ELSE dir[k]]

\* lines 148-149 on lower-cased text: a run of blanks becomes one "_", then
\* everything outside [a-z0-9_-] is dropped
RECURSIVE CleanLowered(_)
CleanLowered(s) ==
    IF s = <<>> THEN <<>>
    ELSE IF Head(s) = " " THEN <<"_">> \o CleanLowered(LStrip(s))
    ELSE IF Head(s) \in LowerLetters \cup Digits \cup {"_", "-"}
         THEN <<Head(s)>> \o CleanLowered(Tail(s))
         ELSE CleanLowered(Tail(s))

\* _clean_filename on ASCII text
CleanFilename(text) == CleanLowered(Lower(text))

\* ------------------------------------------------------------------- paths
\* a pathlib.Path below the parent directory: folder name and file name
MkPath(dir, fname) == [dir |-> dir, name |-> fname]

\* Path(): the value of `folder` before the page is loaded; also stands for
\* first_image = None
NoPath == MkPath(<<>>, <<>>)

\* Path.exists()
Exists(p) == \E f \in disk : f.path = p

\* the bytes stored at p
DataAt(p) == (CHOOSE f \in disk : f.path = p).data

\* opening p for writing and storing the bytes d
WriteFile(p, d) == {f \in disk : f.path # p} \cup {[path |-> p, data |-> d]}

\* os.rename(src, dst) on POSIX: dst is replaced silently
MoveFile(src, dst) ==
    IF src = dst THEN disk
    ELSE {f \in disk : f.path # src /\ f.path # dst}
         \cup {[path |-> dst, data |-> DataAt(src)]}

\* line 108: folder / f"{base}_{counter}{ext}"
Numbered(fname, counter) ==
    SplitExt(fname)[1] \o <<"_">> \o NumStr(counter) \o SplitExt(fname)[2]

\* --------------------------------------------------------- image elements
DataImage == <<"d", "a", "t", "a", ":", "i", "m", "a", "g", "e">>
ImageBase64 == <<"i", "m", "a", "g", "e", "_", "b", "a", "s", "e", "6", "4", "_">>

NoAttrs == [src |-> NoneVal, data_src |-> NoneVal, data_srcset |-> NoneVal, served |-> FALSE]

\* <img> without src, data-src and data-srcset
ImgMissing == NoAttrs

\* inline image, payload of four base64 characters
ImgInline == [NoAttrs EXCEPT !.src = <<"d", "a", "t", "a", ":", "i", "m", "a", "g", "e", "/", "p", ";", "b", "a", "s", "e", "6", "4", ",", "a", "a", "a", "a">>]

\* inline image, payload of three base64 characters (incorrect padding)
ImgInlineBad == [NoAttrs EXCEPT !.src = <<"d", "a", "t", "a", ":", "i", "m", "a", "g", "e", "/", "p", ";", "b", "a", "s", "e", "6", "4", ",", "a", "a", "a">>]

\* remote image with a size suffix and a query string
ImgRemote == [NoAttrs EXCEPT !.src = <<"h", "t", "t", "p", "s", ":", "/", "/", "h", "/", "a", "-", "1", ".", "p", "?", "x">>, !.served = TRUE]

\* the same URL answered with an HTTP error
ImgRemoteDown == [NoAttrs EXCEPT !.src = <<"h", "t", "t", "p", "s", ":", "/", "/", "h", "/", "a", "-", "1", ".", "p", "?", "x">>]

\* protocol-relative URL of a file with the same name
ImgRelative == [NoAttrs EXCEPT !.src = <<"/", "/", "h", "/", "a", ".", "p">>, !.served = TRUE]

\* lazy-loaded image: only data-src is set
ImgLazy == [NoAttrs EXCEPT !.data_src = <<"h", "t", "t", "p", "s", ":", "/", "/", "h", "/", "b", ".", "p">>, !.served = TRUE]

\* responsive image: only data-srcset is set, two candidates
ImgSrcset == [NoAttrs EXCEPT !.data_srcset = <<"/", "/", "h", "/", "c", ".", "p", " ", "1", "x", ",", " ", "/", "/", "h", "/", "a", ".", "p", " ", "2", "x">>, !.served = TRUE]

Images ==
    { ImgMissing, ImgInline, ImgInlineBad, ImgRemote, ImgRemoteDown, ImgRelative,
      ImgLazy, ImgSrcset }

ImageLists(S, n) == UNION { [1..m -> S] : m \in 0..n }

\* text returned by _find_product_name
ProductName == <<"P", " ", "q">>

\* content of product_sentences.json with an entry for the product
KeyFile == { [key |-> <<"P", " ", "q">>, phrases |-> << <<"A">> >>] }

\* use_alt_json and the parsed content of the alt file
AltOptions ==
    { [use |-> FALSE, file |-> {}], [use |-> TRUE, file |-> {}],
      [use |-> TRUE, file |-> KeyFile] }

PageUrl == <<"h", "t", "t", "p", "s", ":", "/", "/", "s", "/", "p">>
BadUrl == <<"f", "t", "p", ":", "/", "/", "s", "/", "p">>

\* bytes of a file that was in the folder before the call
OldData == [job |-> 0, idx |-> 0, run |-> 0]

\* folders found by the first call: empty, or holding a file named a.p
OldFolders ==
    { {}, {[path |-> MkPath(SafeName(ProductName), <<"a", ".", "p">>), data |-> OldData]} }

\* ------------------------------------------------------------ _handle_image
\* lines 182-186: src or data-src or data-srcset
ImgSrc(img) ==
    IF ~Falsy(img.src) THEN img.src
    ELSE IF ~Falsy(img.data_src) THEN img.data_src
    ELSE img.data_srcset

\* lines 191-193: the last candidate of a srcset list
PickCandidate(src) ==
    IF Contains(src, " ") /\ Contains(src, ",")
    THEN Before(Strip(AfterLast(src, ",")), " ")
    ELSE src

\* line 197
IsInline(src) == StartsWith(src, DataImage)

\* line 198: the unpacking of src.split(",", 1) and header.split("/")[1]
\* need a comma, and a slash in front of it
InlineParses(src) == Contains(src, ",") /\ Contains(Before(src, ","), "/")

\* line 199: header.split("/")[1].split(";")[0]
InlineExt(src) == Before(Before(AfterFirst(Before(src, ","), "/"), "/"), ";")

\* line 200: f"image_base64_{index}.{ext}"
InlineName(src, index) == ImageBase64 \o NumStr(index) \o <<".">> \o InlineExt(src)

\* base64.b64decode with validate=False: characters outside the alphabet are
\* discarded, the rest must fill whole groups of four
B64Alphabet == LowerLetters \cup UpperLetters \cup Digits \cup {"+", "/", "="}

B64Valid(encoded) ==
    Cardinality({k \in 1..Len(encoded) : encoded[k] \in B64Alphabet}) % 4 = 0

\* lines 205-206
RemoteUrl(src) == IF StartsWith(src, SlashSlash) THEN HttpsColon \o src ELSE src

\* lines 208-209
RemoteName(src) == StripSize(Basename(Before(src, "?")))

\* ------------------------------------------------------------- job records
\* sentences.get(product_key)
Phrases(sentences, key) ==
    IF \E e \in sentences : e.key = key
    THEN (CHOOSE e \in sentences : e.key = key).phrases
    ELSE <<>>

NoJobExc == [type |-> "none", at |-> "none"]

\* a download_images call that has not executed its first statement
NewJob(u, pg, alt, cbkind, r, before) ==
    [ url |-> u, page |-> pg, use_alt |-> alt.use, alt_file |-> alt.file,
      cb |-> cbkind, pc |-> "start", ret |-> "none", after |-> "none",
      sentences |-> {}, folder |-> NoPath.dir, total |-> 0, idx |-> 0,
      src |-> <<>>, fname |-> <<>>, cand |-> NoPath, counter |-> 0,
      target |-> NoPath, path |-> NoPath, downloaded |-> 0, skipped |-> 0,
      first_image |-> NoPath, futs |-> <<>>, exc |-> NoJobExc,
      first |-> TRUE, tmp |-> 0, result |-> [folder |-> NoPath.dir, first_image |-> NoPath],
      \* history of the call
      calls |-> <<>>, targets |-> {}, claimed |-> {}, attempted |-> {},
      saved |-> {}, final |-> {}, errors |-> {}, failed |-> {}, wiped |-> {},
      run |-> r, earlier |-> before ]

JobIds == DOMAIN jobs

\* the call has executed line 258 and has not returned or raised
Running(j) == jobs[j].pc \notin {"start", "returned", "raised"}

\* number of executions of line 258 so far in a worker's pool
Clears == Cardinality({j \in JobIds : jobs[j].pc # "start"})

SetJob(j, rec) == jobs' = [jobs EXCEPT ![j] = rec]

\* as_completed(futures) has handed out every future
AllSeen(job) == \A k \in 1..Len(job.futs) : job.futs[k].seen

\* control after an image was dealt with: line 309 takes the next element,
\* line 331 waits for the next finished download, line 346 leaves the block
Advance(job) ==
    IF job.after = "loop" /\ job.idx < job.total
    THEN [job EXCEPT !.idx = @ + 1, !.pc = "handle"]
    ELSE IF AllSeen(job) THEN [job EXCEPT !.pc = "finally"]
    ELSE [job EXCEPT !.pc = "collect"]

\* lines 329-330: the error of image idx is logged, the loop goes on
Logged(job) == Advance([job EXCEPT !.errors = @ \cup {job.idx}, !.after = "loop"])

\* lines 320-323 and 337-339: downloaded += 1, first_image, then the callback
Counted(job, p) ==
    [job EXCEPT !.path = p,
                !.downloaded = @ + 1,
                !.first_image = IF @ = NoPath THEN p ELSE @,
                !.final = @ \cup {[idx |-> job.idx, path |-> p]},
                !.pc = "callback"]

pageVars ==
    << callVars, domVars, driverVars, loopVars, pc, exc, outcome, file >>

entryVars == << pageVars, toolVars >>

\* ------------------------------------------------------- download_images
\* variant of B_Start: line 258 is left out
B_Start_NoClear(j) ==
    /\ jobs[j].pc = "start"
    /\ \A i \in JobIds : i < j => jobs[i].pc # "start"
    /\ worker.active =>
          /\ worker.pc = "pool"
          /\ Cardinality({i \in JobIds : Running(i)}) < worker.max_jobs
    /\ IF ValidUrl(jobs[j].url)
       THEN SetJob(j, [jobs[j] EXCEPT !.pc = "setup"])
       ELSE SetJob(j, [jobs[j] EXCEPT !.pc = "raised",
                                      !.exc = [type |-> "ValueError", at |-> "url"]])
    /\ UNCHANGED << entryVars, RESERVED_PATHS, disk, worker >>

\* lines 258-270: _RESERVED_PATHS.clear(), user agent, scheme check.  Under
\* a worker the call starts when a thread of the job pool is free, in the
\* order of submission.
B_Start(j) ==
    /\ jobs[j].pc = "start"
    /\ \A i \in JobIds : i < j => jobs[i].pc # "start"
    /\ worker.active =>
          /\ worker.pc = "pool"
          /\ Cardinality({i \in JobIds : Running(i)}) < worker.max_jobs
    /\ RESERVED_PATHS' = {}
    /\ IF ValidUrl(jobs[j].url)
       THEN SetJob(j, [jobs[j] EXCEPT !.pc = "setup", !.wiped = RESERVED_PATHS])
       ELSE SetJob(j, [jobs[j] EXCEPT !.pc = "raised", !.wiped = RESERVED_PATHS,
                                      !.exc = [type |-> "ValueError", at |-> "url"]])
    /\ UNCHANGED << entryVars, disk, worker >>

\* lines 272-285: setup_driver(), counters, sentences
B_Setup(j) ==
    /\ jobs[j].pc = "setup"
    /\ \/ SetJob(j, [jobs[j] EXCEPT
                        !.pc = "load",
                        !.sentences = IF jobs[j].use_alt THEN jobs[j].alt_file ELSE {}])
       \/ SetJob(j, [jobs[j] EXCEPT
                        !.pc = "raised",
                        !.exc = [type |-> "WebDriverException", at |-> "setup"]])
    /\ UNCHANGED << entryVars, RESERVED_PATHS, disk, worker >>

\* lines 289-306: driver.get, wait for the selector, product name, folder,
\* find_elements, total
B_Load(j) ==
    /\ jobs[j].pc = "load"
    /\ \/ SetJob(j, Advance([jobs[j] EXCEPT
                        !.folder = SafeName(jobs[j].page.product),
                        !.total = Len(jobs[j].page.imgs),
                        !.after = "loop"]))
       \/ SetJob(j, [jobs[j] EXCEPT
                        !.pc = "finally",
                        !.exc = [type |-> "TimeoutException", at |-> "load"]])
    /\ UNCHANGED << entryVars, RESERVED_PATHS, disk, worker >>

\* variant of B_Handle: an image without source ends the whole batch
B_Handle_Abort(j) ==
    LET job == jobs[j]
        raw == ImgSrc(job.page.imgs[job.idx])
        src == PickCandidate(raw)
        seen == [job EXCEPT !.attempted = @ \cup {job.idx}]
        call(s, f, r) ==
            [seen EXCEPT !.src = s, !.fname = f, !.cand = MkPath(job.folder, f),
                         !.counter = 1, !.ret = r, !.pc = "up_test"]
    IN  /\ job.pc = "handle"
        /\ IF Falsy(raw)
           THEN SetJob(j, [seen EXCEPT !.pc = "finally",
                                       !.exc = [type |-> "RuntimeError", at |-> "image"]])
           ELSE IF IsInline(src)
           THEN IF InlineParses(src)
                THEN SetJob(j, call(src, InlineName(src, job.idx), "inline"))
                ELSE SetJob(j, Logged(seen))
           ELSE SetJob(j, call(RemoteUrl(src), RemoteName(RemoteUrl(src)), "remote"))
        /\ UNCHANGED << entryVars, RESERVED_PATHS, disk, worker >>

\* line 311 with _handle_image lines 182-200 and 205-210, up to the call of
\* _unique_path (lines 104-106); an exception is caught at lines 329-330
B_Handle(j) ==
    LET job == jobs[j]
        raw == ImgSrc(job.page.imgs[job.idx])
        src == PickCandidate(raw)
        seen == [job EXCEPT !.attempted = @ \cup {job.idx}]
        call(s, f, r) ==
            [seen EXCEPT !.src = s, !.fname = f, !.cand = MkPath(job.folder, f),
                         !.counter = 1, !.ret = r, !.pc = "up_test"]
    IN  /\ job.pc = "handle"
        /\ IF Falsy(raw)
           THEN SetJob(j, Logged(seen))
           ELSE IF IsInline(src)
           THEN IF InlineParses(src)
                THEN SetJob(j, call(src, InlineName(src, job.idx), "inline"))
                ELSE SetJob(j, Logged(seen))
           ELSE SetJob(j, call(RemoteUrl(src), RemoteName(RemoteUrl(src)), "remote"))
        /\ UNCHANGED << entryVars, RESERVED_PATHS, disk, worker >>

\* _unique_path lines 107-109: one evaluation of the loop condition
UP_Test(j) ==
    LET job == jobs[j]
    IN  /\ job.pc = "up_test"
        /\ IF Exists(job.cand) \/ job.cand \in RESERVED_PATHS
           THEN SetJob(j, [job EXCEPT
                             !.cand = MkPath(job.cand.dir, Numbered(job.fname, job.counter)),
                             !.counter = @ + 1])
           ELSE SetJob(j, [job EXCEPT !.pc = "up_add"])
        /\ UNCHANGED << entryVars, RESERVED_PATHS, disk, worker >>

\* _unique_path lines 110-111: the candidate is reserved and returned
UP_Add(j) ==
    LET job == jobs[j]
        claim == [path |-> job.cand, clears |-> Clears,
                  call |-> Cardinality(job.claimed) + 1]
        back == [job EXCEPT !.target = job.cand, !.claimed = @ \cup {claim},
                            !.pc = job.ret]
    IN  /\ job.pc = "up_add"
        /\ RESERVED_PATHS' = RESERVED_PATHS \cup {job.cand}
        /\ IF job.ret = "rename_mv"
           THEN SetJob(j, back)
           ELSE SetJob(j, [back EXCEPT
                             !.path = job.cand,
                             !.targets = @ \cup {[idx |-> job.idx, fname |-> job.fname,
                                                 path |-> job.cand]}])
        /\ UNCHANGED << entryVars, disk, worker >>

\* lines 202-203 (_save_base64) and 312-325 for an inline image
B_SaveInline(j) ==
    LET job == jobs[j]
        written == [job EXCEPT !.saved = @ \cup {job.idx}, !.after = "loop"]
    IN  /\ job.pc = "inline"
        /\ IF B64Valid(AfterFirst(job.src, ","))
           THEN /\ disk' = WriteFile(job.path, [job |-> j, idx |-> job.idx, run |-> job.run])
                /\ IF job.use_alt
                   THEN SetJob(j, [written EXCEPT !.pc = "rename"])
                   ELSE SetJob(j, Counted(written, job.path))
           ELSE /\ disk' = disk
                /\ SetJob(j, Logged(job))
        /\ UNCHANGED << entryVars, RESERVED_PATHS, worker >>

\* variant of B_Submit: the result of the download is awaited at once
B_Submit_Await(j) ==
    LET job == jobs[j]
        fut == [idx |-> job.idx, path |-> job.path, url |-> job.src,
                state |-> "queued", seen |-> FALSE]
    IN  /\ job.pc = "remote"
        /\ SetJob(j, [job EXCEPT !.futs = Append(@, fut), !.after = "loop",
                                 !.pc = "collect"])
        /\ UNCHANGED << entryVars, RESERVED_PATHS, disk, worker >>

\* lines 211, 312-316, 327-328: the download is handed to the pool
B_Submit(j) ==
    LET job == jobs[j]
        fut == [idx |-> job.idx, path |-> job.path, url |-> job.src,
                state |-> "queued", seen |-> FALSE]
    IN  /\ job.pc = "remote"
        /\ SetJob(j, Advance([job EXCEPT !.futs = Append(@, fut), !.after = "loop"]))
        /\ UNCHANGED << entryVars, RESERVED_PATHS, disk, worker >>

\* _download_binary (lines 75-86) in a pool thread
T_Download(j, k) ==
    LET job == jobs[j]
        fut == job.futs[k]
    IN  /\ fut.state = "queued"
        /\ IF job.page.imgs[fut.idx].served
           THEN /\ disk' = WriteFile(fut.path, [job |-> j, idx |-> fut.idx, run |-> job.run])
                /\ SetJob(j, [job EXCEPT !.futs[k].state = "ok",
                                         !.saved = @ \cup {fut.idx}])
           ELSE /\ disk' = disk
                /\ SetJob(j, [job EXCEPT !.futs[k].state = "failed"])
        /\ UNCHANGED << entryVars, RESERVED_PATHS, worker >>

\* lines 331-342: as_completed hands out a finished download
B_Collect(j, k) ==
    LET job == jobs[j]
        fut == job.futs[k]
        got == [job EXCEPT !.futs[k].seen = TRUE, !.idx = fut.idx, !.path = fut.path,
                           !.after = "collect"]
    IN  /\ job.pc = "collect"
        /\ fut.state # "queued"
        /\ ~fut.seen
        /\ IF fut.state = "ok"
           THEN IF job.use_alt
                THEN SetJob(j, [got EXCEPT !.pc = "rename"])
                ELSE SetJob(j, Counted(got, fut.path))
           ELSE SetJob(j, [got EXCEPT !.skipped = @ + 1, !.failed = @ \cup {fut.idx},
                                      !.pc = "callback"])
        /\ UNCHANGED << entryVars, RESERVED_PATHS, disk, worker >>

\* _rename_with_alt lines 156-170, up to the call of _unique_path or to
\* path.rename
R_Begin(j) ==
    LET job == jobs[j]
        phrase_list == Phrases(job.sentences, ProductKey(job.path.dir))
    IN  /\ job.pc = "rename"
        /\ IF phrase_list = <<>>
           THEN SetJob(j, Counted(job, job.path))
           ELSE \E n \in 1..Len(phrase_list) :
                  LET filename == CleanFilename(phrase_list[n]) \o Suffix(job.path.name)
                      target == MkPath(job.path.dir, filename)
                  IN  IF target # job.path /\ Exists(target)
                      THEN SetJob(j, [job EXCEPT !.fname = filename, !.cand = target,
                                                 !.counter = 1, !.ret = "rename_mv",
                                                 !.pc = "up_test"])
                      ELSE SetJob(j, [job EXCEPT !.target = target, !.pc = "rename_mv"])
        /\ UNCHANGED << entryVars, RESERVED_PATHS, disk, worker >>

\* _rename_with_alt lines 171-176, then lines 320-323 or 337-339
R_Move(j) ==
    LET job == jobs[j]
    IN  /\ job.pc = "rename_mv"
        /\ IF Exists(job.path)
           THEN /\ disk' = MoveFile(job.path, job.target)
                /\ SetJob(j, Counted(job, job.target))
           ELSE /\ disk' = disk
                /\ SetJob(j, Counted(job, job.path))
        /\ UNCHANGED << entryVars, RESERVED_PATHS, worker >>

\* lines 324-325 and 344-345: progress_callback is None, or it is a function
\* that records its arguments
B_Callback(j) ==
    LET job == jobs[j]
    IN  /\ job.pc = "callback"
        /\ job.cb \in {"none", "recorder"}
        /\ IF job.cb = "none"
           THEN SetJob(j, Advance(job))
           ELSE SetJob(j, Advance([job EXCEPT !.calls = Append(@, <<job.idx, job.total>>)]))
        /\ UNCHANGED << entryVars, RESERVED_PATHS, disk, worker >>

\* lines 346-357: the pool is left, driver.quit(), the summary is returned
\* or the exception in flight reaches the caller
B_Finally(j) ==
    LET job == jobs[j]
    IN  /\ job.pc = "finally"
        /\ IF job.exc = NoJobExc
           THEN SetJob(j, [job EXCEPT
                             !.pc = "returned",
                             !.result = [folder |-> job.folder,
                                         first_image |-> job.first_image]])
           ELSE SetJob(j, [job EXCEPT !.pc = "raised"])
        /\ UNCHANGED << entryVars, RESERVED_PATHS, disk, worker >>

\* ------------------------------------------- one direct call, then a repeat
\* file names present in the folder dir
Names(dir) == {f.path.name : f \in {g \in disk : g.path.dir = dir}}

\* the caller empties the destination folder and calls download_images
\* again with the same arguments (test_download_images_same_names_on_repeat)
Rerun ==
    LET job == jobs[1]
    IN  /\ ~worker.active
        /\ job.pc = "returned"
        /\ job.run = 1
        /\ disk' = {f \in disk : f.path.dir # job.folder}
        /\ jobs' = << NewJob(job.url, job.page,
                             [use |-> job.use_alt, file |-> job.alt_file], job.cb, 2,
                             [found |-> job.earlier.found, left |-> Names(job.folder)]) >>
        /\ UNCHANGED << entryVars, RESERVED_PATHS, worker >>

\* the variables of the single-page model keep the values of a finished call
EntryIdle ==
    /\ entry = "images"
    /\ url = PageUrl
    /\ page = [title |-> Missing, container |-> FALSE, inputs |-> <<>>]
    /\ gallery = Missing
    /\ checked = {}
    /\ pending = NoneVal
    /\ pc = "jobs"
    /\ driver = "none"
    /\ sessions = 0
    /\ quits = 0
    /\ navigated = FALSE
    /\ exc = NoExc
    /\ title = NoneVal
    /\ idx = 0
    /\ name = NoneVal
    /\ old_src = NoneVal
    /\ was_checked = FALSE
    /\ results = <<>>
    /\ log = <<>>
    /\ scripts = <<>>
    /\ waits = <<>>
    /\ outcome = NoOutcome
    /\ file = NoFile

\* a fresh process calls download_images once with a recording callback
InitBatch ==
    /\ EntryIdle
    /\ ToolsIdle
    /\ RESERVED_PATHS = {}
    /\ worker = NoWorker
    /\ \E u \in {PageUrl, BadUrl} :
         \E imgs \in (IF u = PageUrl THEN ImageLists(Images, MaxImgs) ELSE {<<>>}) :
           \E alt \in (IF u = PageUrl THEN AltOptions ELSE {[use |-> FALSE, file |-> {}]}) :
             /\ disk \in (IF u = PageUrl THEN OldFolders ELSE {{}})
             /\ jobs = << NewJob(u, [product |-> ProductName, imgs |-> imgs], alt,
                                 "recorder", 1,
                                 [found |-> {f.path.name : f \in disk}, left |-> {}]) >>

NextBatch ==
    \/ \E j \in JobIds : B_Start(j)
    \/ \E j \in JobIds : B_Setup(j)
    \/ \E j \in JobIds : B_Load(j)
    \/ \E j \in JobIds : B_Handle(j)
    \/ \E j \in JobIds : UP_Test(j)
    \/ \E j \in JobIds : UP_Add(j)
    \/ \E j \in JobIds : B_SaveInline(j)
    \/ \E j \in JobIds : B_Submit(j)
    \/ \E j \in JobIds : \E k \in DOMAIN jobs[j].futs : T_Download(j, k)
    \/ \E j \in JobIds : \E k \in DOMAIN jobs[j].futs : B_Collect(j, k)
    \/ \E j \in JobIds : R_Begin(j)
    \/ \E j \in JobIds : R_Move(j)
    \/ \E j \in JobIds : B_Callback(j)
    \/ \E j \in JobIds : B_Finally(j)
    \/ Rerun

SpecBatch == InitBatch /\ [][NextBatch]_vars

\* ------------------------------------------------ calls running side by side
\* pages of the URLs processed in parallel
JobPages == { <<ImgInline>>, <<ImgRemote>> }

\* main lines 454-468 (--jobs) and ScraperImagesWorker.run lines 302-314:
\* one download_images call per URL is handed to a thread pool that has a
\* thread for each of them; the products share one folder, and a line of
\* the URL list may hold a URL of another scheme
InitJobs ==
    /\ EntryIdle
    /\ ToolsIdle
    /\ RESERVED_PATHS = {}
    /\ disk = {}
    /\ worker = NoWorker
    /\ \E n \in 2..MaxJobs : \E alt \in AltOptions :
       \E pages \in [1..n -> JobPages] : \E urls \in [1..n -> {PageUrl, BadUrl}] :
          jobs = [j \in 1..n |->
                    NewJob(urls[j], [product |-> ProductName, imgs |-> pages[j]], alt,
                           "none", 1, [found |-> {}, left |-> {}])]

NextJobs ==
    \/ \E j \in JobIds : B_Start(j)
    \/ \E j \in JobIds : B_Setup(j)
    \/ \E j \in JobIds : B_Load(j)
    \/ \E j \in JobIds : B_Handle(j)
    \/ \E j \in JobIds : UP_Test(j)
    \/ \E j \in JobIds : UP_Add(j)
    \/ \E j \in JobIds : B_SaveInline(j)
    \/ \E j \in JobIds : B_Submit(j)
    \/ \E j \in JobIds : \E k \in DOMAIN jobs[j].futs : T_Download(j, k)
    \/ \E j \in JobIds : \E k \in DOMAIN jobs[j].futs : B_Collect(j, k)
    \/ \E j \in JobIds : R_Begin(j)
    \/ \E j \in JobIds : R_Move(j)
    \/ \E j \in JobIds : B_Callback(j)
    \/ \E j \in JobIds : B_Finally(j)

SpecJobs == InitJobs /\ [][NextJobs]_vars

\* --------------------------------------------------- ScraperImagesWorker.run
\* pages the worker's URLs lead to: inline images, with and without a
\* decodable payload, and elements without source
WorkerPages ==
    { <<>>, <<ImgInline>>, <<ImgInline, ImgInline>>, <<ImgMissing, ImgInline>>,
      <<ImgInlineBad>> }

\* _unique_path lines 104-111 run without interruption: the first candidate
\* that is neither on disk nor reserved
RECURSIVE FreePath(_, _, _, _)
FreePath(dir, fname, cand, counter) ==
    IF Exists(MkPath(dir, cand)) \/ MkPath(dir, cand) \in RESERVED_PATHS
    THEN FreePath(dir, fname, Numbered(fname, counter), counter + 1)
    ELSE MkPath(dir, cand)

\* lines 309-325 for one element of a page of inline images, run without
\* interruption up to the callback: _handle_image, _save_base64, and
\* _rename_with_alt, which returns the path when the alt file has no entry
\* for the product
DI_Fetch(j) ==
    LET job == jobs[j]
        src == PickCandidate(ImgSrc(job.page.imgs[job.idx]))
        seen == [job EXCEPT !.attempted = @ \cup {job.idx}, !.after = "loop", !.src = src]
        target == FreePath(job.folder, InlineName(src, job.idx), InlineName(src, job.idx), 1)
    IN  /\ job.pc = "handle"
        /\ job.cb = "worker"
        /\ IF Falsy(src) \/ ~IsInline(src) \/ ~InlineParses(src)
           THEN /\ SetJob(j, Logged(seen))
                /\ UNCHANGED << RESERVED_PATHS, disk >>
           ELSE /\ RESERVED_PATHS' = RESERVED_PATHS \cup {target}
                /\ IF B64Valid(AfterFirst(src, ","))
                   THEN /\ disk' = WriteFile(target, [job |-> j, idx |-> job.idx,
                                                      run |-> job.run])
                        /\ SetJob(j, Counted([seen EXCEPT !.saved = @ \cup {job.idx}],
                                             target))
                   ELSE /\ disk' = disk
                        /\ SetJob(j, Logged(seen))
        /\ UNCHANGED << entryVars, worker >>

\* lines 281-299: counters, lock, progress.emit(0, 0); lines 302-314 hand one
\* download_images call per URL to the job pool
W_Start ==
    /\ worker.active
    /\ worker.pc = "init"
    /\ worker' = [worker EXCEPT
                    !.pc = "pool",
                    !.emits = Append(@, [done |-> 0, total |-> 0, job |-> 0, t |-> 0,
                                         first |-> FALSE])]
    /\ UNCHANGED << entryVars, RESERVED_PATHS, disk, jobs >>

\* variant of CB_Enter: the body is entered without taking the lock
CB_Enter_NoLock(j) ==
    /\ jobs[j].pc = "callback"
    /\ jobs[j].cb = "worker"
    /\ SetJob(j, [jobs[j] EXCEPT !.pc = "cb_read"])
    /\ UNCHANGED << entryVars, RESERVED_PATHS, disk, worker >>

\* lines 324-325 and 344-345 call cb; line 290: with lock
CB_Enter(j) ==
    /\ jobs[j].pc = "callback"
    /\ jobs[j].cb = "worker"
    /\ worker.lock = 0
    /\ worker' = [worker EXCEPT !.lock = j]
    /\ SetJob(j, [jobs[j] EXCEPT !.pc = "cb_read"])
    /\ UNCHANGED << entryVars, RESERVED_PATHS, disk >>

\* variant of CB_Read: the job's total is added on every callback
CB_Read_AlwaysAdd(j) ==
    /\ jobs[j].pc = "cb_read"
    /\ worker' = [worker EXCEPT !.total_images = @ + jobs[j].total]
    /\ SetJob(j, [jobs[j] EXCEPT !.first = FALSE, !.tmp = worker.images_done,
                                 !.pc = "cb_write"])
    /\ UNCHANGED << entryVars, RESERVED_PATHS, disk >>

\* lines 291-294: the first callback of a job adds its total; images_done
\* is read
CB_Read(j) ==
    /\ jobs[j].pc = "cb_read"
    /\ worker' = [worker EXCEPT
                    !.total_images = IF jobs[j].first THEN @ + jobs[j].total ELSE @]
    /\ SetJob(j, [jobs[j] EXCEPT !.first = FALSE, !.tmp = worker.images_done,
                                 !.pc = "cb_write"])
    /\ UNCHANGED << entryVars, RESERVED_PATHS, disk >>

\* variant of CB_Write: the index of the image is added to images_done
CB_Write_AddIndex(j) ==
    LET job == jobs[j]
    IN  /\ job.pc = "cb_write"
        /\ worker' = [worker EXCEPT
                        !.images_done = job.tmp + job.idx,
                        !.lock = IF @ = j THEN 0 ELSE @,
                        !.emits = Append(@, [done |-> job.tmp + job.idx,
                                             total |-> worker.total_images,
                                             job |-> j, t |-> job.total,
                                             first |-> Len(job.calls) = 0])]
        /\ SetJob(j, Advance([job EXCEPT !.calls = Append(@, <<job.idx, job.total>>)]))
        /\ UNCHANGED << entryVars, RESERVED_PATHS, disk >>

\* lines 294-295: images_done is stored, the pair is emitted, the lock is
\* released and download_images goes on
CB_Write(j) ==
    LET job == jobs[j]
    IN  /\ job.pc = "cb_write"
        /\ worker' = [worker EXCEPT
                        !.images_done = job.tmp + 1,
                        !.lock = IF @ = j THEN 0 ELSE @,
                        !.emits = Append(@, [done |-> job.tmp + 1,
                                             total |-> worker.total_images,
                                             job |-> j, t |-> job.total,
                                             first |-> Len(job.calls) = 0])]
        /\ SetJob(j, Advance([job EXCEPT !.calls = Append(@, <<job.idx, job.total>>)]))
        /\ UNCHANGED << entryVars, RESERVED_PATHS, disk >>

\* lines 316-336: every call has returned or raised; finished is emitted
W_Finish ==
    /\ worker.active
    /\ worker.pc = "pool"
    /\ \A j \in JobIds : jobs[j].pc \in {"returned", "raised"}
    /\ worker' = [worker EXCEPT !.pc = "finished"]
    /\ UNCHANGED << entryVars, RESERVED_PATHS, disk, jobs >>

\* a worker is started on one to MaxUrls product URLs in a fresh process;
\* the alt file has no entry for the products
InitWorker ==
    /\ EntryIdle
    /\ ToolsIdle
    /\ RESERVED_PATHS = {}
    /\ disk = {}
    /\ \E m \in {1, 2} : worker = [NoWorker EXCEPT !.active = TRUE, !.pc = "init",
                                                   !.max_jobs = m]
    /\ \E n \in 1..MaxUrls : \E pages \in [1..n -> WorkerPages] :
          jobs = [j \in 1..n |->
                    NewJob(PageUrl, [product |-> ProductName, imgs |-> pages[j]],
                           [use |-> TRUE, file |-> {}], "worker", 1,
                           [found |-> {}, left |-> {}])]

NextWorker ==
    \/ W_Start
    \/ \E j \in JobIds : B_Start(j)
    \/ \E j \in JobIds : B_Setup(j)
    \/ \E j \in JobIds : B_Load(j)
    \/ \E j \in JobIds : DI_Fetch(j)
    \/ \E j \in JobIds : CB_Enter(j)
    \/ \E j \in JobIds : CB_Read(j)
    \/ \E j \in JobIds : CB_Write(j)
    \/ \E j \in JobIds : B_Finally(j)
    \/ W_Finish

SpecWorker == InitWorker /\ [][NextWorker]_vars

\* ------------------------------------------------------------ _build_wp_url
\* most "-<digits>" groups in front of the extension of an input file name
MaxSizes == 2

RECURSIVE LStripSlash(_)
LStripSlash(s) == IF s # <<>> /\ Head(s) = "/" THEN LStripSlash(Tail(s)) ELSE s

\* s.rstrip("/")
RECURSIVE RStripSlash(_)
RStripSlash(s) ==
    IF s # <<>> /\ s[Len(s)] = "/" THEN RStripSlash(SubSeq(s, 1, Len(s) - 1)) ELSE s

\* s.strip("/")
StripSlash(s) == RStripSlash(LStripSlash(s))

WpUploads ==
    <<"/", "w", "p", "-", "c", "o", "n", "t", "e", "n", "t",
      "/", "u", "p", "l", "o", "a", "d", "s", "/">>

\* alpha_engine.py lines 86-87: img_url.split("/")[-1].split("?")[0], then
\* the size suffix is removed (the segment is computed once)
WpFilename(img_url) ==
    CHOOSE f \in { StripSize(seg) : seg \in {Before(AfterLast(img_url, "/"), "?")} } : TRUE

\* alpha_engine.py lines 84-91 (interface_py.py lines 1550-1556 are the same)
BuildWpUrl(domain, date_path, img_url) ==
    RStripSlash(domain) \o WpUploads \o StripSlash(date_path) \o <<"/">>
        \o WpFilename(img_url)

\* _handle_image lines 205-211 when the first candidate path is free: the
\* name of the file the remote image is stored in
LocalName(src) == RemoteName(RemoteUrl(src))

\* "-1", "-1-2", ...: k size groups
RECURSIVE Sizes(_)
Sizes(k) == IF k = 0 THEN <<>> ELSE Sizes(k - 1) \o <<"-">> \o NumStr(k)

\* values of the domain field of the export form
WpDomains ==
    { HttpsPrefix \o <<"w">>,
      HttpsPrefix \o <<"w", "/">>,
      <<"/", "w", "/">> }

\* values of the date field
WpDatePaths ==
    { <<"2", "4", "/", "0", "5">>,
      <<"2", "4", "/", "0", "5", "/">>,
      <<"/", "2", "4", "/", "0", "5", "/">> }

\* remote image URLs: a host, a file name with up to MaxSizes size groups,
\* with or without extension, with or without query
WpImageUrls ==
    { pre \o stem \o Sizes(k) \o ext \o query :
        pre \in { HttpsPrefix \o <<"h", "/">>, SlashSlash \o <<"h", "/", "i", "/">> },
        stem \in { <<"a">>, <<"b", "-", "c">> },
        k \in 0..MaxSizes,
        ext \in { <<".", "p">>, <<>> },
        query \in { <<>>, <<"?", "x">>, <<"?", "u", "=", "/", "b", ".", "p">> } }

\* the single-page model, the batch and the worker are not in use
OthersIdle ==
    /\ EntryIdle
    /\ RESERVED_PATHS = {}
    /\ jobs = <<>>
    /\ disk = {}
    /\ worker = NoWorker

otherVars == << pageVars, RESERVED_PATHS, jobs, disk, worker >>

\* one image URL of a scraped variant, with the values of the export form
InitUrl ==
    /\ OthersIdle
    /\ alt_cache = NoAlt
    /\ ui = NoUi
    /\ \E d \in WpDomains : \E p \in WpDatePaths : \E u \in WpImageUrls :
          wp = [pc |-> "input", domain |-> d, date_path |-> p, img_url |-> u,
                out |-> <<>>, again |-> <<>>, local |-> <<>>]

\* _build_wp_url(domain, date_path, img_url)
WP_Build ==
    /\ wp.pc = "input"
    /\ wp' = [wp EXCEPT !.pc = "built",
                        !.out = BuildWpUrl(wp.domain, wp.date_path, wp.img_url)]
    /\ UNCHANGED << otherVars, alt_cache, ui >>

\* _build_wp_url applied to the URL it returned
WP_Again ==
    /\ wp.pc = "built"
    /\ wp' = [wp EXCEPT !.pc = "rebuilt",
                        !.again = BuildWpUrl(wp.domain, wp.date_path, wp.out)]
    /\ UNCHANGED << otherVars, alt_cache, ui >>

\* _handle_image names the local file of the same image
WP_Local ==
    /\ wp.pc = "rebuilt"
    /\ wp' = [wp EXCEPT !.pc = "named", !.local = LocalName(wp.img_url)]
    /\ UNCHANGED << otherVars, alt_cache, ui >>

NextUrl ==
    \/ WP_Build
    \/ WP_Again
    \/ WP_Local

SpecUrl == InitUrl /\ [][NextUrl]_vars

\* ------------------------------------------------------ _load_alt_sentences
\* most threads that call _load_alt_sentences, most calls of one thread
MaxLoaders == 2
MaxCalls == 2

\* what path holds: no file, text that is not JSON, the JSON text null, an
\* empty object, an object with the phrases of a product
AltFiles ==
    { NoAltFile,
      [kind |-> "unparsable", value |-> {}],
      [kind |-> "null", value |-> {}],
      [kind |-> "object", value |-> {}],
      [kind |-> "object", value |-> KeyFile] }

\* lines 132-137: json.load(fh), or {} when open or json.load raises
LoadJson(content) ==
    CASE content.kind \in {"missing", "unparsable"} -> [kind |-> "dict", value |-> {}]
      [] content.kind = "null" -> NoDict
      [] OTHER -> [kind |-> "dict", value |-> content.value]

SetLoader(t, rec) ==
    alt_cache' = [alt_cache EXCEPT !.threads[t] = rec]

\* job threads of one process that call download_images with use_alt_json on
\* the same alt file; the cache of the process is empty
InitCache ==
    /\ OthersIdle
    /\ ui = NoUi
    /\ wp = NoWp
    /\ \E n \in 1..MaxLoaders : \E content \in AltFiles :
          alt_cache = [cache |-> NoDict, opens |-> 0, file |-> content,
                       threads |-> [t \in 1..n |->
                                      [pc |-> "idle", calls |-> 0, data |-> NoDict,
                                       got |-> <<>>]]]

\* download_images line 282: the thread calls _load_alt_sentences(path)
L_Call(t) ==
    LET th == alt_cache.threads[t]
    IN  /\ th.pc = "idle"
        /\ th.calls < MaxCalls
        /\ SetLoader(t, [th EXCEPT !.pc = "get", !.calls = @ + 1])
        /\ UNCHANGED << otherVars, ui, wp >>

\* lines 127-130: the cached value is returned unless it is None
L_Get(t) ==
    LET th == alt_cache.threads[t]
    IN  /\ th.pc = "get"
        /\ IF alt_cache.cache # NoDict
           THEN SetLoader(t, [th EXCEPT !.pc = "idle",
                                        !.got = Append(@, alt_cache.cache)])
           ELSE SetLoader(t, [th EXCEPT !.pc = "open"])
        /\ UNCHANGED << otherVars, ui, wp >>

\* lines 132-137: the file is opened and parsed, a failure gives {}
L_Read(t) ==
    LET th == alt_cache.threads[t]
    IN  /\ th.pc = "open"
        /\ alt_cache' = [alt_cache EXCEPT
                           !.opens = @ + 1,
                           !.threads[t] = [th EXCEPT !.pc = "store",
                                                     !.data = LoadJson(alt_cache.file)]]
        /\ UNCHANGED << otherVars, ui, wp >>

\* lines 139-140: the value is cached and returned
L_Store(t) ==
    LET th == alt_cache.threads[t]
    IN  /\ th.pc = "store"
        /\ alt_cache' = [alt_cache EXCEPT
                           !.cache = th.data,
                           !.threads[t] = [th EXCEPT !.pc = "idle",
                                                     !.got = Append(@, th.data)]]
        /\ UNCHANGED << otherVars, ui, wp >>

Loaders == DOMAIN alt_cache.threads

NextCache ==
    \/ \E t \in Loaders : L_Call(t)
    \/ \E t \in Loaders : L_Get(t)
    \/ \E t \in Loaders : L_Read(t)
    \/ \E t \in Loaders : L_Store(t)

SpecCache == InitCache /\ [][NextCache]_vars

\* -------------------------------------------------------------- AlphaEngine
\* most clicks on the start button
MaxClicks == 2

\* contents of the URL field when the button is clicked
AlphaTexts == { <<>>, <<" ">>, <<" ">> \o PageUrl \o <<" ">> }

\* what extract_variants_with_images can return: a title and a dict of
\* variant names and image URLs, in insertion order
AlphaVariants ==
    { <<>>,
      << [name |-> <<"R">>, img |-> SlashSlash \o <<"h", "/", "r", "-", "1", ".", "p">>] >>,
      << [name |-> <<"R">>, img |-> SlashSlash \o <<"h", "/", "r", ".", "p">>],
         [name |-> <<"B">>, img |-> SlashSlash \o <<"h", "/", "b", ".", "p", "?", "x">>] >> }

AlphaTitle == <<"T">>

\* the widget after __init__ (lines 45-82): no thread, the button enabled
NewUi(d, p) ==
    [ pc |-> "widget", button_start |-> TRUE, input_domain |-> d, input_date |-> p,
      result_view |-> <<>>, export_rows |-> <<>>, boxes |-> <<>>,
      worker |-> "none", thread |-> "none", url |-> <<>>,
      queue |-> <<>>,                \* slot calls posted to the GUI thread
      clicks |-> 0, runs |-> 0,
      signals |-> <<>> ]             \* history: the signals of the Workers

InitAlpha ==
    /\ OthersIdle
    /\ alt_cache = NoAlt
    /\ wp = NoWp
    /\ \E d \in WpDomains : \E p \in WpDatePaths : ui = NewUi(d, p)

\* the signal is emitted by the Worker of the current run; the connected
\* slot is posted to the GUI thread
Emit(u, sig, call) ==
    [u EXCEPT !.signals = Append(@, [run |-> u.runs, sig |-> sig]),
              !.queue = Append(@, call)]

\* start_analysis, lines 94-115, on a click on the enabled button
AE_Start ==
    /\ ui.pc = "widget"
    /\ ui.button_start
    /\ ui.clicks < MaxClicks
    /\ \E text \in AlphaTexts :
          LET stripped == Strip(text)
          IN  IF Falsy(stripped)
              THEN ui' = [ui EXCEPT
                            !.clicks = @ + 1,
                            !.boxes = Append(@, [kind |-> "warning",
                                                 text |-> "Aucune URL fournie"])]
              ELSE ui' = [ui EXCEPT
                            !.clicks = @ + 1,
                            !.runs = @ + 1,
                            !.button_start = FALSE,
                            !.result_view = << [kind |-> "status",
                                                text |-> "Analyse en cours..."] >>,
                            !.url = stripped,
                            !.worker = "run",
                            !.thread = "running"]
    /\ UNCHANGED << otherVars, alt_cache, wp >>

\* Worker.run, lines 31-38: the extraction returns or raises, and
\* result_ready or error is emitted
WK_Run ==
    /\ ui.worker = "run"
    /\ \/ \E variants \in AlphaVariants :
             ui' = [Emit(ui, "result_ready",
                         [slot |-> "_display_result", title |-> AlphaTitle,
                          variants |-> variants, msg |-> ""])
                      EXCEPT !.worker = "finally"]
       \/ ui' = [Emit(ui, "error",
                      [slot |-> "_show_error", title |-> <<>>, variants |-> <<>>,
                       msg |-> "boom"])
                   EXCEPT !.worker = "finally"]
    /\ UNCHANGED << otherVars, alt_cache, wp >>

\* Worker.run, lines 39-40: finished is emitted; it is connected to
\* thread.quit (line 111)
WK_Finally ==
    /\ ui.worker = "finally"
    /\ ui' = [Emit(ui, "finished",
                   [slot |-> "quit", title |-> <<>>, variants |-> <<>>, msg |-> ""])
                EXCEPT !.worker = "done"]
    /\ UNCHANGED << otherVars, alt_cache, wp >>

\* lines 120-129: the export rows of a result, one per variant
ExportRows(u, call) ==
    [k \in 1..Len(call.variants) |->
        [Product |-> call.title, Variant |-> call.variants[k].name,
         Image |-> BuildWpUrl(Strip(u.input_domain), Strip(u.input_date),
                              call.variants[k].img)]]

\* lines 117-129: the title and one line per variant are shown, the export
\* rows are rebuilt
AE_DisplayResult ==
    /\ ui.queue # <<>>
    /\ Head(ui.queue).slot = "_display_result"
    /\ \E rows \in {ExportRows(ui, Head(ui.queue))} :
          ui' = [ui EXCEPT
                   !.queue = Tail(@),
                   !.export_rows = rows,
                   !.result_view =
                       << [kind |-> "title", text |-> Head(ui.queue).title] >> \o
                       [k \in 1..Len(rows) |->
                           [kind |-> "variant",
                            text |-> rows[k].Variant \o <<" ", "-", ">", " ">>
                                        \o rows[k].Image]]]
    /\ UNCHANGED << otherVars, alt_cache, wp >>

\* lines 131-132
AE_ShowError ==
    /\ ui.queue # <<>>
    /\ Head(ui.queue).slot = "_show_error"
    /\ ui' = [ui EXCEPT
                !.queue = Tail(@),
                !.boxes = Append(@, [kind |-> "critical", text |-> Head(ui.queue).msg])]
    /\ UNCHANGED << otherVars, alt_cache, wp >>

\* line 111: thread.quit() ends the event loop of the thread
TH_Quit ==
    /\ ui.queue # <<>>
    /\ Head(ui.queue).slot = "quit"
    /\ ui' = [ui EXCEPT !.queue = Tail(@), !.thread = "quitting"]
    /\ UNCHANGED << otherVars, alt_cache, wp >>

\* lines 113-114: the thread has ended and emits QThread.finished, which
\* is connected to _analysis_finished
TH_Finished ==
    /\ ui.thread = "quitting"
    /\ ui' = [ui EXCEPT
                !.thread = "finished",
                !.queue = Append(@, [slot |-> "_analysis_finished", title |-> <<>>,
                                     variants |-> <<>>, msg |-> ""])]
    /\ UNCHANGED << otherVars, alt_cache, wp >>

\* variant of AE_AnalysisFinished: the button is left disabled
AE_AnalysisFinished_KeepDisabled ==
    /\ ui.queue # <<>>
    /\ Head(ui.queue).slot = "_analysis_finished"
    /\ ui' = [ui EXCEPT
                !.queue = Tail(@),
                !.result_view = Append(@, [kind |-> "status", text |-> "Analyse terminée."]),
                !.worker = "none",
                !.thread = "none"]
    /\ UNCHANGED << otherVars, alt_cache, wp >>

\* lines 134-136
AE_AnalysisFinished ==
    /\ ui.queue # <<>>
    /\ Head(ui.queue).slot = "_analysis_finished"
    /\ ui' = [ui EXCEPT
                !.queue = Tail(@),
                !.result_view = Append(@, [kind |-> "status", text |-> "Analyse terminée."]),
                !.button_start = TRUE,
                !.worker = "none",
                !.thread = "none"]
    /\ UNCHANGED << otherVars, alt_cache, wp >>

NextAlpha ==
    \/ AE_Start
    \/ WK_Run
    \/ WK_Finally
    \/ AE_DisplayResult
    \/ AE_ShowError
    \/ TH_Quit
    \/ TH_Finished
    \/ AE_AnalysisFinished

SpecAlpha == InitAlpha /\ [][NextAlpha]_vars

\* the Worker thread runs and both event loops deliver what is posted to
\* them; the extraction ends, by a return or by an exception
FairAlpha ==
    /\ WF_vars(WK_Run)
    /\ WF_vars(WK_Finally)
    /\ WF_vars(AE_DisplayResult)
    /\ WF_vars(AE_ShowError)
    /\ WF_vars(TH_Quit)
    /\ WF_vars(TH_Finished)
    /\ WF_vars(AE_AnalysisFinished)

SpecAlphaFair == SpecAlpha /\ FairAlpha


\* ====================================================== claims on the batch
\* the bytes a successful fetch of image i of call j stores
OwnData(j, i) == [job |-> j, idx |-> i, run |-> jobs[j].run]

\* the element can be fetched: it has a source, and an inline payload
\* decodes or a remote URL is served
Fetchable(img) ==
    LET src == PickCandidate(ImgSrc(img))
    IN  /\ ~Falsy(ImgSrc(img))
        /\ IF IsInline(src)
           THEN InlineParses(src) /\ B64Valid(AfterFirst(src, ","))
           ELSE img.served

\* C11: within one download_images batch two images with the same computed
\* candidate file name get different target paths, and when the batch has
\* returned every image counted as downloaded has a file of its own on disk
\* that holds its bytes.
C11_DistinctTargetsOwnFiles ==
    \A j \in JobIds :
        /\ \A a, b \in jobs[j].targets :
              a.idx # b.idx /\ a.fname = b.fname => a.path # b.path
        /\ jobs[j].pc = "returned" =>
              \A e \in jobs[j].final : \E f \in disk : f.data = OwnData(j, e.idx)

\* C14: with alt renaming disabled, a second run on the same page into the
\* emptied folder leaves the same set of file names as the first run left
\* in its (empty) folder.
C14_SameNamesOnRepeat ==
    \A j \in JobIds :
        ( /\ jobs[j].run = 2
          /\ jobs[j].pc = "returned"
          /\ ~jobs[j].use_alt
          /\ jobs[j].earlier.found = {} )
        => Names(jobs[j].folder) = jobs[j].earlier.left

\* the second run has returned after two images with the same candidate
\* name were stored, one of them under a numbered name
C14_Witness ==
    \E j \in JobIds :
        /\ jobs[j].run = 2
        /\ jobs[j].pc = "returned"
        /\ ~jobs[j].use_alt
        /\ jobs[j].earlier.found = {}
        /\ \E a, b \in jobs[j].targets : a.idx # b.idx /\ a.fname = b.fname
        /\ Cardinality(Names(jobs[j].folder)) = 2

\* C15: whatever images fail, the call is not ended by an image: it returns
\* its summary, every element was attempted, and every element that can be
\* fetched was written to disk.
C15_FailuresContained ==
    \A j \in JobIds :
        /\ jobs[j].exc.at \in {"none", "url", "setup", "load"}
        /\ jobs[j].pc = "returned" =>
              /\ jobs[j].attempted = 1..jobs[j].total
              /\ \A i \in 1..jobs[j].total :
                    Fetchable(jobs[j].page.imgs[i]) => i \in jobs[j].saved

\* the call returned from a page whose first image failed during discovery
\* and whose second image was saved
C15_Witness ==
    \E j \in JobIds :
        /\ jobs[j].pc = "returned"
        /\ 1 \in jobs[j].errors
        /\ 2 \in jobs[j].saved

\* C16: every image that fails during discovery adds one to skipped, as a
\* failed remote download does: at the return skipped counts all failures.
C16_DiscoveryFailuresSkipped ==
    \A j \in JobIds :
        jobs[j].pc = "returned" =>
            jobs[j].skipped = Cardinality(jobs[j].errors \cup jobs[j].failed)

\* C17: in the progress_callback invocations of one batch the first
\* argument never decreases, and the last invocation carries
\* completed = total.
C17_ProgressMonotone ==
    \A j \in JobIds :
        LET calls == jobs[j].calls
        IN  /\ \A k \in 1..(Len(calls) - 1) : calls[k][1] <= calls[k + 1][1]
            /\ (jobs[j].pc = "returned" /\ calls # <<>>) =>
                  calls[Len(calls)][1] = calls[Len(calls)][2]

\* C20: the first_image of the summary is the file of the lowest-index
\* image that was produced successfully.
C20_FirstImageLowestIndex ==
    \A j \in JobIds :
        (jobs[j].pc = "returned" /\ jobs[j].final # {}) =>
            \E e \in jobs[j].final :
                /\ \A o \in jobs[j].final : e.idx <= o.idx
                /\ jobs[j].result.first_image = e.path

\* ======================================== claims on calls running in parallel
\* C12: no interleaving of concurrent download_images calls lets two
\* _unique_path calls return the same path; stated for two calls between
\* which no invocation cleared the reserved set.
C12_UniquePathCallsDiffer ==
    \A i, j \in JobIds :
        \A a \in jobs[i].claimed : \A b \in jobs[j].claimed :
            ((i # j \/ a.call # b.call) /\ a.clears = b.clears) => a.path # b.path

\* C13: while a download_images call is running, every path it has claimed
\* since its own clear() is still in _RESERVED_PATHS.
C13_ReservationsKept ==
    \A j \in JobIds :
        Running(j) => \A c \in jobs[j].claimed : c.path \in RESERVED_PATHS

\* ============================================== claims on the worker's pairs
RECURSIVE SumJobs(_, _)
SumJobs(f(_), n) == IF n = 0 THEN 0 ELSE f(n) + SumJobs(f, n - 1)

\* callbacks made by call j: one per counted image, one per failed download
CallbacksOf(j) == jobs[j].downloaded + jobs[j].skipped

\* C18 as stated: once total is non-zero, every later emission carries the
\* same total.
C18_Original ==
    \A k, m \in 1..Len(worker.emits) :
        (k < m /\ worker.emits[k].total # 0) =>
            worker.emits[m].total = worker.emits[k].total

\* C18: total starts at 0 and changes only at the first callback of a page
\* job, where that job's image count is added once; at every other
\* emission it is the total of the emission before.
C18_TotalAddedOncePerJob ==
    /\ Len(worker.emits) > 0 => worker.emits[1].total = 0
    /\ \A k \in 2..Len(worker.emits) :
          worker.emits[k].total =
              worker.emits[k - 1].total
              + (IF worker.emits[k].first THEN worker.emits[k].t ELSE 0)

\* the worker has finished after a job's first callback raised a non-zero
\* total and a later callback of a job emitted the total unchanged
C18_Witness ==
    /\ worker.pc = "finished"
    /\ \E k, m \in 2..Len(worker.emits) :
          /\ worker.emits[k].first
          /\ worker.emits[k - 1].total # 0
          /\ worker.emits[k].total > worker.emits[k - 1].total
          /\ ~worker.emits[m].first

\* C19: (0, 0) is emitted before any page job starts; the done values of the
\* emitted pairs are 0, 1, 2, ... in emission order; and when the worker has
\* finished there is one pair after (0, 0) for every callback the jobs made.
C19_DoneCountsCallbacks ==
    worker.active =>
        /\ (\E j \in JobIds : jobs[j].pc # "start") =>
              /\ Len(worker.emits) >= 1
              /\ worker.emits[1].done = 0
              /\ worker.emits[1].total = 0
        /\ \A k \in 1..Len(worker.emits) : worker.emits[k].done = k - 1
        /\ worker.pc = "finished" =>
              Len(worker.emits) = 1 + SumJobs(CallbacksOf, Len(jobs))

\* the worker has finished after the callbacks of two jobs alternated
C19_Witness ==
    /\ worker.pc = "finished"
    /\ \E a, b, c \in 2..Len(worker.emits) :
          /\ a < b
          /\ b < c
          /\ worker.emits[a].job = worker.emits[c].job
          /\ worker.emits[a].job # worker.emits[b].job

\* the download of another image of the call is in flight towards path p
InFlightTo(j, p) ==
    \E k \in 1..Len(jobs[j].futs) :
        /\ jobs[j].futs[k].state = "queued"
        /\ jobs[j].futs[k].idx # jobs[j].idx
        /\ jobs[j].futs[k].path = p

\* C24: with alt renaming enabled a file is never renamed onto a path that
\* is taken, neither by a file on disk nor by the reservation of another
\* image of the batch whose download is in flight, and when the batch has
\* returned no two images share a final path.
C24_RenameOntoFreePath ==
    \A j \in JobIds :
        /\ ( /\ jobs[j].use_alt
             /\ jobs[j].pc = "rename_mv"
             /\ jobs[j].target # jobs[j].path )
           => /\ ~Exists(jobs[j].target)
              /\ ~InFlightTo(j, jobs[j].target)
        /\ ( jobs[j].use_alt /\ jobs[j].pc = "returned" )
           => \A a, b \in jobs[j].final : a.idx # b.idx => a.path # b.path

\* C26: no result of a submitted download is awaited or taken before every
\* image element of the page was visited and every remote image that got
\* that far was submitted.
C26_SubmitBeforeAwait ==
    \A j \in JobIds :
        ( \/ jobs[j].pc = "collect"
          \/ jobs[j].after = "collect"
          \/ \E k \in 1..Len(jobs[j].futs) : jobs[j].futs[k].seen )
        => /\ jobs[j].attempted = 1..jobs[j].total
           /\ jobs[j].idx = jobs[j].total \/ jobs[j].after = "collect"

\* the call waits for results while a download is still queued, after it
\* visited both elements of the page
C26_Witness ==
    \E j \in JobIds :
        /\ jobs[j].pc = "collect"
        /\ jobs[j].total = 2
        /\ jobs[j].attempted = {1, 2}
        /\ \E k \in 1..Len(jobs[j].futs) :
              jobs[j].futs[k].idx = 1 /\ jobs[j].futs[k].state = "queued"

\* C28: when download_images returns, downloaded + skipped is the number of
\* image elements that were found on the page.
C28_CountersAddUp ==
    \A j \in JobIds :
        jobs[j].pc = "returned" =>
            jobs[j].downloaded + jobs[j].skipped = jobs[j].total

\* C27: a download_images call that is rejected for its URL scheme removes
\* nothing from _RESERVED_PATHS: the set is after the call what it was
\* before it, whatever a concurrently running batch had reserved.
C27_RejectedCallKeepsReserved ==
    \A j \in JobIds :
        jobs[j].exc.at = "url" => jobs[j].wiped = {}

\* C29: in every pair emitted by ScraperImagesWorker.run, done is at most
\* total.
C29_DoneAtMostTotal ==
    \A k \in 1..Len(worker.emits) :
        worker.emits[k].done <= worker.emits[k].total

\* two calls of one worker have reported: the second image of a call is
\* emitted after another call added its total
C29_Witness ==
    /\ worker.active
    /\ \E k, m \in 1..Len(worker.emits) :
          /\ k < m
          /\ worker.emits[k].job # worker.emits[m].job
          /\ worker.emits[m].done = worker.emits[m].total
          /\ worker.emits[m].total >= 2

\* ======================================================= claims on the URLs
\* the last segment of the path of a URL, its query dropped
FinalSegment(u) == Basename(Before(u, "?"))

\* C22: _build_wp_url returns D/wp-content/uploads/P/F: D is the domain
\* without leading and trailing slashes, P the date path without leading
\* and trailing slashes, F the final path segment of the image URL without
\* its query and without the size group in front of the extension.
C22_BuildWpUrlShape ==
    wp.pc \in {"built", "rebuilt", "named"} =>
        wp.out = StripSlash(wp.domain) \o WpUploads \o StripSlash(wp.date_path)
                    \o <<"/">> \o StripSize(FinalSegment(wp.img_url))

\* C23: the file name of the URL that _build_wp_url returns is unchanged
\* when _build_wp_url is applied to that URL again.
C23_SizeStripIdempotent ==
    wp.pc \in {"rebuilt", "named"} => Basename(wp.again) = Basename(wp.out)

\* C30: the name under which _handle_image stores a remote image, when no
\* collision suffix is needed, is the file name that _build_wp_url derives
\* from the same URL.
C30_LocalNameIsWpName ==
    wp.pc = "named" => wp.local = Basename(wp.out)

\* ================================================= claims on the alt cache
\* C21: whatever the order and interleaving of the _load_alt_sentences calls
\* for one path, also when the first read fails, the file is opened and
\* parsed at most once in the life of the process.
C21_FileReadAtMostOnce == alt_cache.opens <= 1

\* ================================================ claims on the AlphaEngine
\* the names of the signals that the Worker of run r has emitted, in order
SignalsOf(r) ==
    LET own == SelectSeq(ui.signals, LAMBDA s : s.run = r)
    IN  [k \in 1..Len(own) |-> own[k].sig]

\* run r is over: its thread has ended and _analysis_finished has run
RunOver(r) == r < ui.runs \/ (r = ui.runs /\ ui.thread = "none")

C25_Safe ==
    ui.pc = "widget" =>
        /\ \A r \in 1..ui.runs :
              /\ SignalsOf(r) \in { <<>>, <<"result_ready">>, <<"error">>,
                                    <<"result_ready", "finished">>,
                                    <<"error", "finished">> }
              /\ RunOver(r) => Len(SignalsOf(r)) = 2
        /\ ui.thread # "none" => ~ui.button_start
        /\ ui.thread = "none" => ui.button_start

\* C25: the Worker of every analysis run emits exactly one of result_ready
\* and error and then exactly one finished, whether the extraction returns
\* or raises; the start button is disabled from start_analysis until the
\* run has finished, and every run that was started is followed by a state
\* in which the run is over and the button is enabled again.
C25_OneOutcomeThenFinished ==
    /\ []C25_Safe
    /\ \A r \in 1..MaxClicks :
          (ui.pc = "widget" /\ ui.runs = r /\ ui.thread = "running")
          ~> (ui.runs = r /\ ui.thread = "none" /\ ui.button_start
              /\ Len(SignalsOf(r)) = 2)

\* two runs are over, one whose extraction raised and one whose extraction
\* returned, and the button is enabled
C25_Witness ==
    /\ ui.pc = "widget"
    /\ ui.runs = 2
    /\ ui.thread = "none"
    /\ ui.button_start
    /\ \E a, b \in 1..2 :
          /\ SignalsOf(a) = <<"error", "finished">>
          /\ SignalsOf(b) = <<"result_ready", "finished">>
====
